---------------------------- MODULE Spec2Model ----------------------------
(***************************************************************************)
(* A model of the multi-source advertising ETL of polars-ad-etl:           *)
(*   src/src/multi_source_ad_etl/multi_source_ad_etl.py  MultiSourceAdETL  *)
(*   src/src/plETL/apslETL.py                            apslETL           *)
(*   src/src/multi_source_ad_etl/data_clean_lib.py       cleaning library  *)
(*                                                                         *)
(* A text is a sequence of one-character strings, so that parsing,         *)
(* prefix tests and casts are computed and not assumed.  A cell is a       *)
(* record [k, s, n, e]: k is the kind of the value ("null", "str", "int",  *)
(* "float", "date"), s the text of a "str", n the integer of an "int",     *)
(* the day number of a "date" or the decimal mantissa of a "float", whose  *)
(* value is n / 10^e.  A column is [name, dtype, vals]; a DataFrame is a   *)
(* sequence of columns of equal length.                                    *)
(***************************************************************************)
EXTENDS Integers, Sequences, FiniteSets, TLC

VARIABLES cls, cfg, dir, dfs, prev, merged, pc, err, calls, stage, libcall

vars == <<cls, cfg, dir, dfs, prev, merged, pc, err, calls, stage, libcall>>

(***************************************************************************)
(* Bounds of the model.                                                    *)
(***************************************************************************)
MaxCalls == 5
MaxFiles == 2

(***************************************************************************)
(* Texts and numbers.                                                      *)
(***************************************************************************)
Digits == {"0", "1", "2", "3", "4", "5", "6", "7", "8", "9"}

DigitVal(c) ==
    CASE c = "0" -> 0 [] c = "1" -> 1 [] c = "2" -> 2 [] c = "3" -> 3
      [] c = "4" -> 4 [] c = "5" -> 5 [] c = "6" -> 6 [] c = "7" -> 7
      [] c = "8" -> 8 [] c = "9" -> 9

DigitChar(d) ==
    CASE d = 0 -> "0" [] d = 1 -> "1" [] d = 2 -> "2" [] d = 3 -> "3"
      [] d = 4 -> "4" [] d = 5 -> "5" [] d = 6 -> "6" [] d = 7 -> "7"
      [] d = 8 -> "8" [] d = 9 -> "9"

IsDigits(s) == Len(s) > 0 /\ \A i \in 1..Len(s) : s[i] \in Digits

RECURSIVE ParseNat(_)
ParseNat(s) ==
    IF s = <<>> THEN 0
    ELSE ParseNat(SubSeq(s, 1, Len(s) - 1)) * 10 + DigitVal(s[Len(s)])

RECURSIVE NatText(_)
NatText(n) ==
    IF n < 10 THEN <<DigitChar(n)>>
    ELSE NatText(n \div 10) \o <<DigitChar(n % 10)>>

RECURSIVE Pow10(_)
Pow10(e) == IF e = 0 THEN 1 ELSE 10 * Pow10(e - 1)

StartsWith(s, p) == Len(s) >= Len(p) /\ SubSeq(s, 1, Len(p)) = p

EndsWith(s, p) ==
    Len(s) >= Len(p) /\ SubSeq(s, Len(s) - Len(p) + 1, Len(s)) = p

IndexOf(s, c) ==
    IF \E i \in 1..Len(s) : s[i] = c
    THEN CHOOSE i \in 1..Len(s) : s[i] = c /\ \A j \in 1..(i - 1) : s[j] # c
    ELSE 0

(***************************************************************************)
(* Cells.                                                                  *)
(***************************************************************************)
Null == [k |-> "null", s |-> <<>>, n |-> 0, e |-> 0]
Str(t) == [k |-> "str", s |-> t, n |-> 0, e |-> 0]
Int64(i) == [k |-> "int", s |-> <<>>, n |-> i, e |-> 0]
Date(d) == [k |-> "date", s |-> <<>>, n |-> d, e |-> 0]

\* a float m / 10^x, with the trailing zeros of the fraction removed
RECURSIVE Float64(_, _)
Float64(m, x) ==
    IF x > 0 /\ m % 10 = 0 THEN Float64(m \div 10, x - 1)
    ELSE [k |-> "float", s |-> <<>>, n |-> m, e |-> x]

Fail == [k |-> "fail", s |-> <<>>, n |-> 0, e |-> 0]


(***************************************************************************)
(* Parsing and formatting, as the casts of polars do them (strict mode).   *)
(***************************************************************************)
Unsigned(s) == IF s # <<>> /\ s[1] \in {"-", "+"} THEN Tail(s) ELSE s

Sign(s) == IF s # <<>> /\ s[1] = "-" THEN -1 ELSE 1

ParseInt(s) ==
    IF IsDigits(Unsigned(s)) THEN Int64(Sign(s) * ParseNat(Unsigned(s))) ELSE Fail

ParseFloat(s) ==
    LET b == Unsigned(s)
        dot == IndexOf(b, ".")
        ip == SubSeq(b, 1, dot - 1)
        fp == SubSeq(b, dot + 1, Len(b))
    IN  IF dot = 0
        THEN IF IsDigits(b) THEN Float64(Sign(s) * ParseNat(b), 0) ELSE Fail
        ELSE IF /\ ip \o fp # <<>>
                /\ \A i \in 1..Len(ip) : ip[i] \in Digits
                /\ \A i \in 1..Len(fp) : fp[i] \in Digits
             THEN Float64(Sign(s) * ParseNat(ip \o fp), Len(fp))
             ELSE Fail

IsLeap(y) == (y % 4 = 0 /\ y % 100 # 0) \/ y % 400 = 0

DaysInMonth(y, m) ==
    IF m = 2 THEN (IF IsLeap(y) THEN 29 ELSE 28)
    ELSE IF m \in {4, 6, 9, 11} THEN 30 ELSE 31

\* days since 1970-01-01, the physical value of a polars Date
DaysFromCivil(y, m, d) ==
    LET yy == IF m <= 2 THEN y - 1 ELSE y
        era == yy \div 400
        yoe == yy - era * 400
        mp == (m + 9) % 12
        doy == (153 * mp + 2) \div 5 + d - 1
        doe == yoe * 365 + yoe \div 4 - yoe \div 100 + doy
    IN  era * 146097 + doe - 719468

ParseDate(s) ==
    IF /\ Len(s) = 10
       /\ s[5] = "-" /\ s[8] = "-"
       /\ \A i \in {1, 2, 3, 4, 6, 7, 9, 10} : s[i] \in Digits
    THEN LET y == ParseNat(SubSeq(s, 1, 4))
             m == ParseNat(SubSeq(s, 6, 7))
             d == ParseNat(SubSeq(s, 9, 10))
         IN  IF m \in 1..12 /\ d \in 1..DaysInMonth(y, m)
             THEN Date(DaysFromCivil(y, m, d)) ELSE Fail
    ELSE Fail

IntText(n) == IF n < 0 THEN <<"-">> \o NatText(-n) ELSE NatText(n)

Abs(n) == IF n < 0 THEN -n ELSE n

\* the integer part of m / 10^x, rounded towards zero
Trunc(m, x) == (IF m < 0 THEN -1 ELSE 1) * (Abs(m) \div Pow10(x))

FloatText(m, x) ==
    IF x = 0 THEN IntText(m) \o <<".", "0">>
    ELSE (IF m < 0 THEN <<"-">> ELSE <<>>)
         \o NatText(Abs(m) \div Pow10(x)) \o <<".">>
         \o Tail(NatText(Pow10(x) + (Abs(m) % Pow10(x))))

\* the ISO text of day number n (inverse of DaysFromCivil)
DateText(n) ==
    LET z == n + 719468
        era == z \div 146097
        doe == z - era * 146097
        yoe == (doe - doe \div 1460 + doe \div 36524 - doe \div 146096) \div 365
        doy == doe - (365 * yoe + yoe \div 4 - yoe \div 100)
        mp == (5 * doy + 2) \div 153
        d == doy - (153 * mp + 2) \div 5 + 1
        m == IF mp < 10 THEN mp + 3 ELSE mp - 9
        y == yoe + era * 400 + (IF m <= 2 THEN 1 ELSE 0)
    IN  Tail(NatText(10000 + y)) \o <<"-">> \o Tail(NatText(100 + m))
        \o <<"-">> \o Tail(NatText(100 + d))

\* cast of one cell to dtype `to`; Fail when a strict cast raises
CastCell(c, to) ==
    IF c.k = "null" THEN Null
    ELSE CASE to = "String" ->
                (CASE c.k = "str" -> c
                   [] c.k = "int" -> Str(IntText(c.n))
                   [] c.k = "float" -> Str(FloatText(c.n, c.e))
                   [] c.k = "date" -> Str(DateText(c.n)))
           [] to = "Int64" ->
                (CASE c.k = "str" -> ParseInt(c.s)
                   [] c.k = "int" -> c
                   [] c.k = "float" -> Int64(Trunc(c.n, c.e))
                   [] c.k = "date" -> Int64(c.n))
           [] to = "Float64" ->
                (CASE c.k = "str" -> ParseFloat(c.s)
                   [] c.k = "int" -> Float64(c.n, 0)
                   [] c.k = "float" -> c
                   [] c.k = "date" -> Float64(c.n, 0))
           [] to = "Date" ->
                (CASE c.k = "str" -> ParseDate(c.s)
                   [] c.k = "int" -> Date(c.n)
                   [] c.k = "float" -> Date(Trunc(c.n, c.e))
                   [] c.k = "date" -> c)

(***************************************************************************)
(* DataFrames.                                                             *)
(***************************************************************************)
Col(name, dtype, vals) == [name |-> name, dtype |-> dtype, vals |-> vals]

Columns(df) == [i \in 1..Len(df) |-> df[i].name]

ColSet(df) == {df[i].name : i \in 1..Len(df)}

Height(df) == IF df = <<>> THEN 0 ELSE Len(df[1].vals)

Schema(df) == [i \in 1..Len(df) |-> <<df[i].name, df[i].dtype>>]

ColIdx(df, name) == CHOOSE i \in 1..Len(df) : df[i].name = name

GetCol(df, name) == df[ColIdx(df, name)]

\* row r of df, as the sequence of its cells
Row(df, r) == [i \in 1..Len(df) |-> df[i].vals[r]]

Rows(df) == [r \in 1..Height(df) |-> Row(df, r)]

\* pl.lit(v) broadcast to the height of df
Lit(df, name, dtype, v) == Col(name, dtype, [r \in 1..Height(df) |-> v])

\* df.with_columns(col): replaces the column of that name, or appends it
WithColumn(df, col) ==
    IF col.name \in ColSet(df)
    THEN [i \in 1..Len(df) |-> IF df[i].name = col.name THEN col ELSE df[i]]
    ELSE Append(df, col)

\* df.select(names), every name being a column of df
Select(df, names) == [i \in 1..Len(names) |-> GetCol(df, names[i])]

\* the outcome of an operation on one table: the table, or the exception
Ok(df) == [err |-> "none", df |-> df]

Raise(e) == [err |-> e, df |-> <<>>]


(***************************************************************************)
(* Source labels and literals of the code.                                 *)
(***************************************************************************)
Meta == <<"M", "e", "t", "a">>
TikTok == <<"T", "i", "k", "T", "o", "k">>
XTwitter == <<"X", " ", "(", "T", "w", "i", "t", "t", "e", "r", ")">>
Unknown == <<"U", "n", "k", "n", "o", "w", "n">>
Total == <<"T", "o", "t", "a", "l">>
Mp4 == <<".", "m", "p", "4">>
Dash == <<"-">>
CsvSuffix == <<".", "c", "s", "v">>
XlsxSuffix == <<".", "x", "l", "s", "x">>

\* an optional argument: None, or Some(v)
None == [some |-> FALSE, v |-> <<>>]
Some(x) == [some |-> TRUE, v |-> x]

(***************************************************************************)
(* The reader: pl.read_csv / pl.read_excel with infer_schema_length=None   *)
(* infer each column's dtype from all of its cells.  A file is             *)
(* [suffix, header, rows], its cells texts; an empty cell reads as null.   *)
(***************************************************************************)
LowerChar(c) ==
    CASE c = "C" -> "c" [] c = "S" -> "s" [] c = "V" -> "v"
      [] c = "X" -> "x" [] c = "L" -> "l" [] c = "T" -> "t"
      [] OTHER -> c

Lower(s) == [i \in 1..Len(s) |-> LowerChar(s[i])]

InferDtype(texts) ==
    LET full == {i \in 1..Len(texts) : texts[i] # <<>>}
    IN  IF full = {} THEN "String"
        ELSE IF \A i \in full : ParseInt(texts[i]) # Fail THEN "Int64"
        ELSE IF \A i \in full : ParseFloat(texts[i]) # Fail THEN "Float64"
        ELSE "String"

ParseCell(t, dtype) ==
    IF t = <<>> THEN Null
    ELSE CASE dtype = "Int64" -> ParseInt(t)
           [] dtype = "Float64" -> ParseFloat(t)
           [] OTHER -> Str(t)

ReadTable(f) ==
    [i \in 1..Len(f.header) |->
        LET texts == [r \in 1..Len(f.rows) |-> f.rows[r][i]]
            dtype == InferDtype(texts)
        IN  Col(f.header[i], dtype,
                [r \in 1..Len(texts) |-> ParseCell(texts[r], dtype)])]

\* a file without a header line has no data to read
read_csv(f) == IF f.header = <<>> THEN Raise("NoDataError") ELSE Ok(ReadTable(f))

read_excel(f) == IF f.header = <<>> THEN Raise("NoDataError") ELSE Ok(ReadTable(f))

\* the loop of read_tabular_files over the listing fs, appending to ds in
\* place: the tables read before a failing file stay appended
RECURSIVE ReadLoop(_, _)
ReadLoop(fs, ds) ==
    IF fs = <<>> THEN [err |-> "none", dfs |-> ds]
    ELSE LET f == Head(fs)
             suffix == Lower(f.suffix)
             r == IF suffix = CsvSuffix THEN read_csv(f) ELSE read_excel(f)
         IN  IF suffix \notin {CsvSuffix, XlsxSuffix} THEN ReadLoop(Tail(fs), ds)
             ELSE IF r.err # "none" THEN [err |-> r.err, dfs |-> ds]
             ELSE ReadLoop(Tail(fs), Append(ds, r.df))

read_tabular_files(raw_dir, ds) == ReadLoop(raw_dir, ds)

(***************************************************************************)
(* Classification.  Criteria are a dict, kept in insertion order: a        *)
(* sequence of [src, cols].                                                *)
(***************************************************************************)
DefaultCriteria ==
    << [src |-> Meta, cols |-> {"Campaign name", "Day"}],
       [src |-> TikTok, cols |-> {"By Day", "Cost"}],
       [src |-> XTwitter, cols |-> {"Time period", "Spend"}] >>

ApslCriteria ==
    << [src |-> Meta, cols |-> {"Campaign name", "Day"}],
       [src |-> TikTok, cols |-> {"By Day", "Cost"}],
       [src |-> XTwitter, cols |-> {"Time period", "Clicks"}] >>

\* col_to_keys has a column with more than one source
SharedColumn(crit) ==
    \E i, j \in 1..Len(crit) : i # j /\ crit[i].cols \cap crit[j].cols # {}

\* the subset test written the wrong way round
MatchingSuperset(crit, cols) == {i \in 1..Len(crit) : cols \subseteq crit[i].cols}

Matching(crit, cols) == {i \in 1..Len(crit) : crit[i].cols \subseteq cols}

\* the first configured source returned as soon as any source matches
HeadIfAnyMatch(crit, cols) ==
    IF Matching(crit, cols) = {} THEN Unknown ELSE crit[1].src

\* the loop returning the last match instead of the first
LastMatch(crit, cols) ==
    IF Matching(crit, cols) = {} THEN Unknown
    ELSE crit[CHOOSE i \in Matching(crit, cols) :
                 \A j \in Matching(crit, cols) : i >= j].src

\* the loop over source_criteria.items(): the first match, else "Unknown"
FirstMatch(crit, cols) ==
    IF Matching(crit, cols) = {} THEN Unknown
    ELSE crit[CHOOSE i \in Matching(crit, cols) :
                 \A j \in Matching(crit, cols) : i <= j].src

\* a classifier that raises when no source matches
DetectSourceFatal(df, source_criteria) ==
    LET crit == IF source_criteria.some THEN source_criteria.v ELSE DefaultCriteria
    IN  IF source_criteria.some /\ SharedColumn(crit)
        THEN [err |-> "ValueError", src |-> <<>>]
        ELSE IF Matching(crit, ColSet(df)) = {}
        THEN [err |-> "UnclassifiedSourceError", src |-> <<>>]
        ELSE [err |-> "none", src |-> FirstMatch(crit, ColSet(df))]

\* MultiSourceAdETL._detect_source: [err, src]
_detect_source(df, source_criteria) ==
    IF source_criteria.some /\ SharedColumn(source_criteria.v)
    THEN [err |-> "ValueError", src |-> <<>>]
    ELSE [err |-> "none",
          src |-> FirstMatch(IF source_criteria.some THEN source_criteria.v
                             ELSE DefaultCriteria, ColSet(df))]

\* apslETL._detect_source
apsl_detect_source(df) ==
    [err |-> "none", src |-> FirstMatch(ApslCriteria, ColSet(df))]

\* the label added without the selection that moves it to the front
StampSourceInPlace(df, src) == WithColumn(df, Lit(df, "Source", "String", Str(src)))

\* with_columns(pl.lit(src).alias("Source")).select(["Source"] + others)
StampSource(df, src) ==
    LET others == SelectSeq(Columns(df), LAMBDA c : c # "Source")
    IN  Select(WithColumn(df, Lit(df, "Source", "String", Str(src))),
               <<"Source">> \o others)

assign_source_df(c, df, source_criteria) ==
    LET d == IF c = "apslETL" THEN apsl_detect_source(df)
             ELSE _detect_source(df, source_criteria)
    IN  IF d.err # "none" THEN Raise(d.err) ELSE Ok(StampSource(df, d.src))

\* src = df["Source"][0]: [err, cell]
SourceOf(df) ==
    IF "Source" \notin ColSet(df) THEN [err |-> "ColumnNotFoundError", cell |-> Null]
    ELSE IF Height(df) = 0 THEN [err |-> "IndexError", cell |-> Null]
    ELSE [err |-> "none", cell |-> GetCol(df, "Source").vals[1]]


(***************************************************************************)
(* Cleaning steps.                                                         *)
(***************************************************************************)
AvgFreq == "Average frequency"

\* the placeholder replaced by null instead of zero
WhenDashThenNull(col) ==
    Col(col.name, "String",
        [r \in 1..Len(col.vals) |->
            IF col.vals[r] = Str(Dash) THEN Null ELSE col.vals[r]])

\* pl.when(col == "-").then(pl.lit(0)).otherwise(col): the branches are
\* brought to their supertype String, so the literal 0 becomes the text "0"
WhenDashThenZero(col) ==
    Col(col.name, "String",
        [r \in 1..Len(col.vals) |->
            IF col.vals[r] = Str(Dash) THEN CastCell(Int64(0), "String")
            ELSE col.vals[r]])

\* data_clean_lib.clean_x_avg_frequency
clean_x_avg_frequency(df) ==
    IF AvgFreq \notin ColSet(df) THEN Raise("KeyError")
    ELSE IF GetCol(df, AvgFreq).dtype = "String"
    THEN Ok(WithColumn(df, WhenDashThenZero(GetCol(df, AvgFreq))))
    ELSE Ok(df)

\* the cleaner applied whatever the type of the column
CleanXAnyType(df) ==
    LET s == SourceOf(df)
    IN  IF s.err # "none" THEN Raise(s.err)
        ELSE IF s.cell # Str(XTwitter) THEN Ok(df)
        ELSE IF AvgFreq \notin ColSet(df) THEN Raise("KeyError")
        ELSE Ok(WithColumn(df, WhenDashThenZero(GetCol(df, AvgFreq))))

\* the cleaner applied to a table without a look at its source
CleanXAnySource(df) ==
    IF AvgFreq \notin ColSet(df) THEN Raise("KeyError")
    ELSE IF GetCol(df, AvgFreq).dtype = "String"
    THEN Ok(WithColumn(df, WhenDashThenZero(GetCol(df, AvgFreq))))
    ELSE Ok(df)

\* MultiSourceAdETL.clean_x_avg_frequency, for one table of self.dfs
etl_clean_x_avg_frequency(df) ==
    LET s == SourceOf(df)
    IN  IF s.err # "none" THEN Raise(s.err)
        ELSE IF s.cell # Str(XTwitter) THEN Ok(df)
        ELSE IF AvgFreq \notin ColSet(df) THEN Raise("KeyError")
        ELSE IF GetCol(df, AvgFreq).dtype = "String"
        THEN Ok(WithColumn(df, WhenDashThenZero(GetCol(df, AvgFreq))))
        ELSE Ok(df)

\* pl.col(...).replace_strict("-", "0"): raises when a non-null value is
\* not "-", the mapping having no default
ReplaceStrict(col) ==
    IF \E r \in 1..Len(col.vals) : col.vals[r] \notin {Null, Str(Dash)}
    THEN [err |-> "InvalidOperationError", col |-> col]
    ELSE [err |-> "none",
          col |-> Col(col.name, "String",
                      [r \in 1..Len(col.vals) |->
                          IF col.vals[r] = Str(Dash) THEN Str(<<"0">>)
                          ELSE col.vals[r]])]

\* apslETL.clean_x_avg_frequency, for one table of self.dfs
apsl_clean_x_avg_frequency(df) ==
    LET s == SourceOf(df)
    IN  IF s.err # "none" THEN Raise(s.err)
        ELSE IF s.cell # Str(XTwitter) THEN Ok(df)
        ELSE IF AvgFreq \notin ColSet(df) THEN Raise("KeyError")
        ELSE IF GetCol(df, AvgFreq).dtype # "String" THEN Ok(df)
        ELSE LET r == ReplaceStrict(GetCol(df, AvgFreq))
             IN  IF r.err # "none" THEN Raise(r.err)
                 ELSE Ok(WithColumn(df, r.col))

\* df.remove(pred): the rows of drop, those where pred holds, are removed
RemoveRows(df, drop) ==
    LET keep == SelectSeq([r \in 1..Height(df) |-> r], LAMBDA r : r \notin drop)
    IN  [i \in 1..Len(df) |->
            Col(df[i].name, df[i].dtype,
                [k \in 1..Len(keep) |-> df[i].vals[keep[k]]])]

\* data_clean_lib.remove_tiktok_total_row
remove_tiktok_total_row(df) ==
    IF Len(df) < 2 THEN Raise("IndexError")
    ELSE IF df[2].dtype # "String" THEN Raise("SchemaError")
    ELSE Ok(RemoveRows(df, {r \in 1..Height(df) :
                df[2].vals[r].k = "str" /\ StartsWith(df[2].vals[r].s, Total)}))

\* the summary rows looked for in the first column instead of the second
RemoveTotalFirstColumn(df) ==
    LET s == SourceOf(df)
    IN  IF s.err # "none" THEN Raise(s.err)
        ELSE IF s.cell # Str(TikTok) THEN Ok(df)
        ELSE Ok(RemoveRows(df, {r \in 1..Height(df) :
                    df[1].vals[r].k = "str" /\ StartsWith(df[1].vals[r].s, Total)}))

\* clean_tiktok_remove_total, for one table of self.dfs
clean_tiktok_remove_total_df(df) ==
    LET s == SourceOf(df)
    IN  IF s.err # "none" THEN Raise(s.err)
        ELSE IF s.cell # Str(TikTok) THEN Ok(df)
        ELSE IF Len(df) < 2 THEN Raise("IndexError")
        ELSE IF df[2].dtype # "String" THEN Raise("SchemaError")
        ELSE Ok(RemoveRows(df, {r \in 1..Height(df) :
                    df[2].vals[r].k = "str" /\ StartsWith(df[2].vals[r].s, Total)}))

StripSuffix(c, suffix) ==
    IF c.k = "str" /\ EndsWith(c.s, suffix)
    THEN Str(SubSeq(c.s, 1, Len(c.s) - Len(suffix))) ELSE c

\* data_clean_lib.strip_tiktok_mp4_suffix
strip_tiktok_mp4_suffix(df) ==
    IF "Ad name" \notin ColSet(df) THEN Raise("ColumnNotFoundError")
    ELSE IF GetCol(df, "Ad name").dtype # "String" THEN Raise("SchemaError")
    ELSE LET c == GetCol(df, "Ad name")
         IN  Ok(WithColumn(df, Col(c.name, c.dtype,
                    [r \in 1..Len(c.vals) |-> StripSuffix(c.vals[r], Mp4)])))

\* a cleaner that passes a table without the column through
StripMp4SkipMissing(df) ==
    LET s == SourceOf(df)
    IN  IF s.err # "none" THEN Raise(s.err)
        ELSE IF s.cell # Str(TikTok) THEN Ok(df)
        ELSE IF "Ad name" \notin ColSet(df) THEN Ok(df)
        ELSE strip_tiktok_mp4_suffix(df)

\* clean_tiktok_strip_mp4_suffix, for one table of self.dfs
clean_tiktok_strip_mp4_suffix_df(df) ==
    LET s == SourceOf(df)
    IN  IF s.err # "none" THEN Raise(s.err)
        ELSE IF s.cell # Str(TikTok) THEN Ok(df)
        ELSE IF "Ad name" \notin ColSet(df) THEN Raise("ColumnNotFoundError")
        ELSE IF GetCol(df, "Ad name").dtype # "String" THEN Raise("SchemaError")
        ELSE LET c == GetCol(df, "Ad name")
             IN  Ok(WithColumn(df, Col(c.name, c.dtype,
                        [r \in 1..Len(c.vals) |-> StripSuffix(c.vals[r], Mp4)])))

(***************************************************************************)
(* standardize.  A rename mapping is a dict: a sequence of <<old, new>>;   *)
(* the standard schema an ordered dict: a sequence of <<name, dtype>>.     *)
(***************************************************************************)
MapKeys(m) == {m[i][1] : i \in 1..Len(m)}

MapGet(m, key) == m[CHOOSE i \in 1..Len(m) : m[i][1] = key][2]

NoDuplicates(names) ==
    \A i, j \in 1..Len(names) : names[i] = names[j] => i = j

\* df.rename(mapping): every key must be a column, and the new names distinct
Rename(df, m) ==
    LET names == [i \in 1..Len(df) |->
                     IF df[i].name \in MapKeys(m) THEN MapGet(m, df[i].name)
                     ELSE df[i].name]
    IN  IF ~(MapKeys(m) \subseteq ColSet(df)) THEN Raise("ColumnNotFoundError")
        ELSE IF ~NoDuplicates(names) THEN Raise("DuplicateError")
        ELSE Ok([i \in 1..Len(df) |-> Col(names[i], df[i].dtype, df[i].vals)])

\* the missing columns filled with the text "0" instead of null
FillMissingZero(df, schema) ==
    LET missing == SelectSeq([i \in 1..Len(schema) |-> schema[i][1]],
                             LAMBDA c : c \notin ColSet(df))
    IN  df \o [i \in 1..Len(missing) |-> Lit(df, missing[i], "String", Str(<<"0">>))]

\* with_columns([pl.lit(None).alias(col) for col in schema if col not in df])
FillMissing(df, schema) ==
    LET missing == SelectSeq([i \in 1..Len(schema) |-> schema[i][1]],
                             LAMBDA c : c \notin ColSet(df))
    IN  df \o [i \in 1..Len(missing) |-> Lit(df, missing[i], "Null", Null)]

SchemaKeys(schema) == [i \in 1..Len(schema) |-> schema[i][1]]

\* a cast that turns a cell it cannot convert into null
CastLenient(df, schema) ==
    Ok([i \in 1..Len(df) |->
           Col(df[i].name, schema[i][2],
               [r \in 1..Len(df[i].vals) |->
                   LET c == CastCell(df[i].vals[r], schema[i][2])
                   IN  IF c = Fail THEN Null ELSE c])])

\* df.cast(schema), strict: a cell that cannot be cast raises
Cast(df, schema) ==
    LET out == [i \in 1..Len(df) |->
                   Col(df[i].name, schema[i][2],
                       [r \in 1..Len(df[i].vals) |->
                           CastCell(df[i].vals[r], schema[i][2])])]
    IN  IF \E i \in 1..Len(out) : \E r \in 1..Len(out[i].vals) : out[i].vals[r] = Fail
        THEN Raise("InvalidOperationError")
        ELSE Ok(out)

\* the selection without the cast
SelectWithoutCast(df, schema) == Ok(Select(df, SchemaKeys(schema)))

\* .select(standard_schema.keys()).cast(standard_schema)
SelectAndCast(df, schema) == Cast(Select(df, SchemaKeys(schema)), schema)

\* a lookup that falls back to the empty mapping for a label it does not know
MappingLookupDefault(src, meta_mapping, tiktok_mapping, x_mapping) ==
    CASE src = Str(Meta) -> meta_mapping
      [] src = Str(TikTok) -> tiktok_mapping
      [] src = Str(XTwitter) -> x_mapping
      [] OTHER -> Some(<<>>)

\* mapping_lookup.get(src)
mapping_lookup(src, meta_mapping, tiktok_mapping, x_mapping) ==
    CASE src = Str(Meta) -> meta_mapping
      [] src = Str(TikTok) -> tiktok_mapping
      [] src = Str(XTwitter) -> x_mapping
      [] OTHER -> None

\* the body of standardize's loop, for one table of self.dfs
standardize_df(df, standard_schema, meta_mapping, tiktok_mapping, x_mapping) ==
    LET s == SourceOf(df)
        mapping == mapping_lookup(s.cell, meta_mapping, tiktok_mapping, x_mapping)
        renamed == Rename(df, mapping.v)
    IN  IF s.err # "none" THEN Raise(s.err)
        ELSE IF ~mapping.some THEN Raise("ValueError")
        ELSE IF renamed.err # "none" THEN Raise(renamed.err)
        ELSE SelectAndCast(FillMissing(renamed.df, standard_schema), standard_schema)

(***************************************************************************)
(* merge_and_collect: pl.concat(self.dfs), how="vertical".                 *)
(***************************************************************************)
\* the tables stacked last file first
RECURSIVE VStackReversed(_)
VStackReversed(ds) ==
    IF Len(ds) = 1 THEN ds[1]
    ELSE LET top == VStackReversed(SubSeq(ds, 2, Len(ds)))
             first == ds[1]
         IN  [i \in 1..Len(top) |->
                 Col(top[i].name, top[i].dtype, top[i].vals \o first[i].vals)]

RECURSIVE VStack(_)
VStack(ds) ==
    IF Len(ds) = 1 THEN ds[1]
    ELSE LET top == VStack(SubSeq(ds, 1, Len(ds) - 1))
             last == ds[Len(ds)]
         IN  [i \in 1..Len(top) |->
                 Col(top[i].name, top[i].dtype, top[i].vals \o last[i].vals)]

\* a concatenation that aligns the columns by name instead of failing
ConcatAligned(ds) ==
    IF ds = <<>> THEN Raise("ValueError")
    ELSE IF \E i \in 1..Len(ds) : ColSet(ds[i]) # ColSet(ds[1]) \/ Len(ds[i]) # Len(ds[1])
    THEN Raise("ShapeError")
    ELSE Ok(VStack([i \in 1..Len(ds) |-> Select(ds[i], Columns(ds[1]))]))

concat(ds) ==
    IF ds = <<>> THEN Raise("ValueError")
    ELSE IF \E i \in 1..Len(ds) : Len(ds[i]) # Len(ds[1]) THEN Raise("ShapeError")
    ELSE IF \E i \in 1..Len(ds) : Schema(ds[i]) # Schema(ds[1]) THEN Raise("SchemaError")
    ELSE Ok(VStack(ds))

merge_and_collect(ds) == concat(ds)


(***************************************************************************)
(* The files of the input directory.                                       *)
(***************************************************************************)
\* a Meta export
FMeta ==
    [suffix |-> <<".", "c", "s", "v">>,
     header |-> <<"Campaign name", "Day", "Impressions">>,
     rows |-> << <<<<"c", "1">>, <<"2", "0", "2", "5", "-", "0", "1", "-", "0", "1">>, <<"1", "0">>>>,
                <<<<"c", "2">>, <<"2", "0", "2", "5", "-", "0", "1", "-", "0", "2">>, <<"7">>>> >>]

\* a TikTok export, ending with its summary row
FTikTok ==
    [suffix |-> <<".", "x", "l", "s", "x">>,
     header |-> <<"By Day", "Cost", "Ad name">>,
     rows |-> << <<<<"2", "0", "2", "5", "-", "0", "1", "-", "0", "3">>, <<"5", ".", "5">>, <<"v", ".", "m", "p", "4">>>>,
                <<<<"T", "o", "t", "a", "l", " ", "o", "f", " ", "1", " ", "r", "e", "s", "u", "l", "t">>, <<"5", ".", "5">>, <<"-">>>> >>]

\* a TikTok export with its summary row between two data rows
FTikTokMid ==
    [suffix |-> <<".", "c", "s", "v">>,
     header |-> <<"By Day", "Cost", "Ad name">>,
     rows |-> << <<<<"2", "0", "2", "5", "-", "0", "2", "-", "0", "1">>, <<"2">>, <<"T", "o", "t", "a", "l">>>>,
                <<<<"T", "o", "t", "a", "l">>, <<"5">>, <<"-">>>>,
                <<<<"2", "0", "2", "5", "-", "0", "2", "-", "0", "2">>, <<"3">>, <<"w", ".", "m", "p", "4">>>> >>]

\* an X export whose average frequency is textual
FX ==
    [suffix |-> <<".", "c", "s", "v">>,
     header |-> <<"Time period", "Spend", "Clicks", "Average frequency">>,
     rows |-> << <<<<"2", "0", "2", "5", "-", "0", "1", "-", "0", "4">>, <<"1">>, <<"3">>, <<"-">>>>,
                <<<<"2", "0", "2", "5", "-", "0", "1", "-", "0", "5">>, <<"2">>, <<"4">>, <<"1", ".", "5">>>> >>]

\* an X export whose average frequency holds only the placeholder
FXDash ==
    [suffix |-> <<".", "C", "S", "V">>,
     header |-> <<"Time period", "Spend", "Clicks", "Average frequency">>,
     rows |-> << <<<<"2", "0", "2", "5", "-", "0", "1", "-", "0", "6">>, <<"3">>, <<"5">>, <<"-">>>> >>]

\* an X export whose average frequency is numeric
FXNum ==
    [suffix |-> <<".", "c", "s", "v">>,
     header |-> <<"Time period", "Spend", "Clicks", "Average frequency">>,
     rows |-> << <<<<"2", "0", "2", "5", "-", "0", "1", "-", "1", "2">>, <<"4">>, <<"6">>, <<"1", ".", "5">>>>,
                <<<<"2", "0", "2", "5", "-", "0", "1", "-", "1", "3">>, <<"5">>, <<"7">>, <<"2">>>> >>]

\* an X export without the average-frequency column
FXNoFreq ==
    [suffix |-> <<".", "c", "s", "v">>,
     header |-> <<"Time period", "Spend", "Clicks">>,
     rows |-> << <<<<"2", "0", "2", "5", "-", "0", "1", "-", "1", "4">>, <<"6">>, <<"8">>>> >>]

\* a TikTok export without the ad-name column
FTikTokNoAd ==
    [suffix |-> <<".", "c", "s", "v">>,
     header |-> <<"By Day", "Cost">>,
     rows |-> << <<<<"2", "0", "2", "5", "-", "0", "1", "-", "1", "5">>, <<"7">>>> >>]

\* a Meta export with a header line and no data row
FMetaHdr ==
    [suffix |-> <<".", "c", "s", "v">>,
     header |-> <<"Campaign name", "Day", "Impressions">>,
     rows |-> <<  >>]

\* a TikTok export whose only row is the summary row
FTikTokTotals ==
    [suffix |-> <<".", "c", "s", "v">>,
     header |-> <<"By Day", "Cost", "Ad name">>,
     rows |-> << <<<<"T", "o", "t", "a", "l">>, <<"0">>, <<"-">>>> >>]

\* a Meta export with the same columns in another order
FMetaR ==
    [suffix |-> <<".", "c", "s", "v">>,
     header |-> <<"Day", "Campaign name", "Impressions">>,
     rows |-> << <<<<"2", "0", "2", "5", "-", "0", "1", "-", "0", "9">>, <<"c", "3">>, <<"4">>>> >>]

\* a Meta export that already carries a column named "Source"
FMetaSrc ==
    [suffix |-> <<".", "c", "s", "v">>,
     header |-> <<"Campaign name", "Source", "Day">>,
     rows |-> << <<<<"c", "4">>, <<"f", "b">>, <<"2", "0", "2", "5", "-", "0", "1", "-", "0", "7">>>> >>]

\* an export that has the required columns of Meta and those of TikTok
FBoth ==
    [suffix |-> <<".", "c", "s", "v">>,
     header |-> <<"Campaign name", "Day", "By Day", "Cost">>,
     rows |-> << <<<<"c", "5">>, <<"2", "0", "2", "5", "-", "0", "1", "-", "0", "8">>,
                  <<"2", "0", "2", "5", "-", "0", "1", "-", "0", "8">>, <<"9">>>> >>]

\* a Meta export whose impressions carry a thousands separator and a
\* currency glyph
FMetaK ==
    [suffix |-> <<".", "c", "s", "v">>,
     header |-> <<"Campaign name", "Day", "Impressions">>,
     rows |-> << <<<<"c", "6">>, <<"2", "0", "2", "5", "-", "0", "1", "-", "1", "0">>, <<"1", ",", "2", "3", "4">>>>,
                <<<<"c", "7">>, <<"2", "0", "2", "5", "-", "0", "1", "-", "1", "1">>, <<"$", "5">>>> >>]

\* a table of no known source
FOther ==
    [suffix |-> <<".", "c", "s", "v">>,
     header |-> <<"Foo">>,
     rows |-> << <<<<"x">>>> >>]

\* a file that is not tabular
FNotes ==
    [suffix |-> <<".", "t", "x", "t">>,
     header |-> <<"Day">>,
     rows |-> << <<<<"n">>>> >>]

\* an empty file
FEmpty ==
    [suffix |-> <<".", "c", "s", "v">>,
     header |-> <<>>,
     rows |-> <<  >>]

\* the file of source A of the end-to-end scenario
FA ==
    [suffix |-> <<".", "c", "s", "v">>,
     header |-> <<"Day", "Campaign", "Cost">>,
     rows |-> << <<<<"2", "0", "2", "5", "-", "0", "1", "-", "0", "1">>, <<"c">>, <<"1", "0">>>> >>]

\* the file of source B of the end-to-end scenario
FB ==
    [suffix |-> <<".", "c", "s", "v">>,
     header |-> <<"Date", "Campaign", "Spend">>,
     rows |-> << <<<<"2", "0", "2", "5", "-", "0", "1", "-", "0", "2">>, <<"c">>, <<"2", "0", ".", "5">>>> >>]

\* the directory listings considered, in the order iterdir() yields them
Listings ==
    { <<>>, <<FMeta>>, <<FTikTok>>, <<FX>>, <<FXDash>>, <<FOther>>, <<FMetaSrc>>, <<FBoth>>, <<FMetaK>>, <<FTikTokMid>>, <<FXNum>>, <<FXNum, FX>>, <<FXNoFreq>>,
      <<FMetaHdr>>, <<FTikTokTotals>>, <<FMeta, FMetaHdr>>,
      <<FTikTokNoAd>>, <<FMeta, FTikTokNoAd>>,
      <<FMeta, FTikTok>>, <<FX, FMeta>>, <<FMeta, FMetaR>>, <<FXDash, FX>>, <<FNotes, FMeta>>,
      <<FMeta, FEmpty>>, <<FMeta, FOther>>, <<FA, FB>>, <<FB, FA>>,
      <<FX, FOther>>, <<FTikTok, FX, FMeta>> }

Dirs == {d \in Listings : Len(d) <= MaxFiles}

(***************************************************************************)
(* The configurations of a run: the arguments the script passes to         *)
(* assign_source and to standardize.                                       *)
(***************************************************************************)
SrcA == <<"A">>
SrcB == <<"B">>

KconSchema ==
    << <<"Source", "String">>, <<"Day", "Date">>, <<"Campaign name", "String">>,
       <<"Spend", "Float64">>, <<"Impressions", "Int64">>, <<"Frequency", "Float64">> >>

KconMeta ==
    << <<"Day", "Day">>, <<"Campaign name", "Campaign name">>,
       <<"Impressions", "Impressions">> >>

KconTikTok ==
    << <<"By Day", "Day">>, <<"Cost", "Spend">>, <<"Ad name", "Campaign name">> >>

KconX ==
    << <<"Time period", "Day">>, <<"Spend", "Spend">>,
       <<"Average frequency", "Frequency">> >>

AbSchema == << <<"Date", "Date">>, <<"Campaign", "String">>, <<"Spend", "Float64">> >>

\* the default criteria and one mapping per source
CfgKcon ==
    [criteria |-> None, schema |-> KconSchema,
     meta_mapping |-> Some(KconMeta), tiktok_mapping |-> Some(KconTikTok),
     x_mapping |-> Some(KconX)]

\* a script that passes no x_mapping
CfgNoX == [CfgKcon EXCEPT !.x_mapping = None]

\* a rename target that is no column of the schema
CfgTypo ==
    [CfgKcon EXCEPT !.meta_mapping =
        Some(<< <<"Day", "Day">>, <<"Campaign name", "Campaign name">>,
                <<"Impressions", "Impresions">> >>)]

\* criteria in which "Day" is required by two sources
CfgShared ==
    [CfgKcon EXCEPT !.criteria =
        Some(<< [src |-> Meta, cols |-> {"Campaign name", "Day"}],
                [src |-> TikTok, cols |-> {"Day", "Cost"}] >>)]

\* the default criteria passed explicitly, TikTok configured before Meta
CfgRev ==
    [CfgKcon EXCEPT !.criteria =
        Some(<< [src |-> TikTok, cols |-> {"By Day", "Cost"}],
                [src |-> Meta, cols |-> {"Campaign name", "Day"}],
                [src |-> XTwitter, cols |-> {"Time period", "Spend"}] >>)]

\* the end-to-end scenario, its sources named A and B
CfgAB ==
    [criteria |-> Some(<< [src |-> SrcA, cols |-> {"Day", "Cost"}],
                          [src |-> SrcB, cols |-> {"Date", "Spend"}] >>),
     schema |-> AbSchema,
     meta_mapping |-> Some(<< <<"Day", "Date">>, <<"Cost", "Spend">> >>),
     tiktok_mapping |-> Some(<<>>),
     x_mapping |-> None]

\* the same scenario under two labels that standardize knows
CfgABNamed ==
    [CfgAB EXCEPT !.criteria =
        Some(<< [src |-> Meta, cols |-> {"Day", "Cost"}],
                [src |-> TikTok, cols |-> {"Date", "Spend"}] >>)]

Configs == {CfgKcon, CfgNoX, CfgTypo, CfgShared, CfgRev, CfgAB, CfgABNamed}


(***************************************************************************)
(* The stage methods.  Each builds updated_dfs from self.dfs and assigns   *)
(* self.dfs only after its loop: an exception leaves self.dfs as it was.   *)
(***************************************************************************)
\* updated_dfs built back to front
MapDfsReversed(rs, ds) ==
    LET bad == {i \in 1..Len(ds) : rs[i].err # "none"}
    IN  IF bad # {}
        THEN [err |-> rs[CHOOSE i \in bad : \A j \in bad : i <= j].err, dfs |-> ds]
        ELSE [err |-> "none",
              dfs |-> [i \in 1..Len(ds) |-> rs[Len(ds) + 1 - i].df]]

MapDfs(rs, ds) ==
    LET bad == {i \in 1..Len(ds) : rs[i].err # "none"}
    IN  IF bad # {}
        THEN [err |-> rs[CHOOSE i \in bad : \A j \in bad : i <= j].err, dfs |-> ds]
        ELSE [err |-> "none", dfs |-> [i \in 1..Len(ds) |-> rs[i].df]]

\* the four configuration invariants a conforming constructor would check
DeclaredSources(config) ==
    LET crit == IF config.criteria.some THEN config.criteria.v ELSE DefaultCriteria
    IN  {crit[i].src : i \in 1..Len(crit)}

MappedSources(config) ==
    {l \in {Meta, TikTok, XTwitter} :
        mapping_lookup(Str(l), config.meta_mapping, config.tiktok_mapping,
                       config.x_mapping).some}

MappingTargets(config) ==
    UNION {{m.v[i][2] : i \in 1..Len(m.v)} :
              m \in {config.meta_mapping, config.tiktok_mapping, config.x_mapping}}

NoSharedColumn(config) ==
    ~SharedColumn(IF config.criteria.some THEN config.criteria.v ELSE DefaultCriteria)

OneMappingPerSource(config) == DeclaredSources(config) = MappedSources(config)

TargetsInSchema(config) ==
    MappingTargets(config) \subseteq
        {config.schema[i][1] : i \in 1..Len(config.schema)}

CleanersDeclared(config) == {XTwitter, TikTok} \subseteq DeclaredSources(config)

ConfigValid(config) ==
    /\ NoSharedColumn(config)
    /\ OneMappingPerSource(config)
    /\ TargetsInSchema(config)
    /\ CleanersDeclared(config)

\* a constructor that validates the configuration
InitValidating(raw_dir, config) ==
    IF ConfigValid(config) THEN [err |-> "none", dfs |-> <<>>]
    ELSE [err |-> "ConfigurationError", dfs |-> <<>>]

\* __init__ of both classes: self.dfs = []
init(raw_dir, config) == [err |-> "none", dfs |-> <<>>]

assign_source(c, ds, source_criteria) ==
    MapDfs([i \in 1..Len(ds) |-> assign_source_df(c, ds[i], source_criteria)], ds)

clean_x(c, ds) ==
    MapDfs([i \in 1..Len(ds) |->
               IF c = "apslETL" THEN apsl_clean_x_avg_frequency(ds[i])
               ELSE etl_clean_x_avg_frequency(ds[i])], ds)

clean_tiktok_remove_total(ds) == MapDfs([i \in 1..Len(ds) |-> clean_tiktok_remove_total_df(ds[i])], ds)

clean_tiktok_strip_mp4_suffix(ds) == MapDfs([i \in 1..Len(ds) |-> clean_tiktok_strip_mp4_suffix_df(ds[i])], ds)

standardize(ds, config) ==
    MapDfs([i \in 1..Len(ds) |->
               standardize_df(ds[i], config.schema, config.meta_mapping,
                              config.tiktok_mapping, config.x_mapping)], ds)

(***************************************************************************)
(* The state machine.  cfg and dir are the run's configuration and input   *)
(* directory; cls the class constructed; dfs is self.dfs; prev is self.dfs *)
(* as the last call found it; merged the table merge_and_collect returned; *)
(* pc the last method called; calls the number of calls; err the          *)
(* exception that ended the run; stage the place of the calls so far in    *)
(* the order load, classify, clean, standardize, merge; libcall the call   *)
(* of a library function in progress, None in a run of the pipeline.       *)
(***************************************************************************)
Classes == {"MultiSourceAdETL", "apslETL"}

Init ==
    /\ cfg \in Configs
    /\ dir \in Dirs
    /\ cls = "none"
    /\ dfs = <<>>
    /\ prev = <<>>
    /\ merged = None
    /\ pc = "start"
    /\ err = "none"
    /\ calls = 0
    /\ stage = "Configured"
    /\ libcall = None

New(c) ==
    /\ pc = "start"
    /\ cls' = c
    /\ dfs' = init(dir, cfg).dfs
    /\ err' = init(dir, cfg).err
    /\ pc' = "init"
    /\ UNCHANGED <<cfg, dir, prev, merged, calls, stage, libcall>>

CleanSteps == {"clean_x", "clean_total", "clean_mp4"}

\* the stage a call leads to: the calls made in the order load, classify,
\* clean (any number of steps), standardize, merge; any other call is Illegal
NextStage(st, name) ==
    CASE st = "Configured" /\ name = "read" -> "Loaded"
      [] st = "Loaded" /\ name = "assign" -> "Classified"
      [] st \in {"Classified", "Cleaned"} /\ name \in CleanSteps -> "Cleaned"
      [] st \in {"Classified", "Cleaned"} /\ name = "standardize" -> "Coerced"
      [] st = "Coerced" /\ name = "merge" -> "Merged"
      [] OTHER -> "Illegal"

Running == pc # "start" /\ err = "none" /\ calls < MaxCalls

\* the return of a stage method: r is [err, dfs]
Returns(name, r) ==
    /\ dfs' = r.dfs
    /\ err' = r.err
    /\ prev' = dfs
    /\ pc' = name
    /\ calls' = calls + 1
    /\ stage' = NextStage(stage, name)
    /\ UNCHANGED <<cls, cfg, dir, merged, libcall>>

ReadTabularFiles ==
    /\ Running
    /\ Returns("read", read_tabular_files(dir, dfs))

AssignSource ==
    /\ Running
    /\ Returns("assign", assign_source(cls, dfs, cfg.criteria))

CleanXAvgFrequency ==
    /\ Running
    /\ Returns("clean_x", clean_x(cls, dfs))

CleanTikTokRemoveTotal ==
    /\ Running
    /\ Returns("clean_total", clean_tiktok_remove_total(dfs))

CleanTikTokStripMp4Suffix ==
    /\ Running
    /\ Returns("clean_mp4", clean_tiktok_strip_mp4_suffix(dfs))

Standardize ==
    /\ Running
    /\ Returns("standardize", standardize(dfs, cfg))

MergeAndCollect ==
    /\ Running
    /\ LET r == merge_and_collect(dfs)
       IN  /\ err' = r.err
           /\ merged' = IF r.err = "none" THEN Some(r.df) ELSE merged
    /\ prev' = dfs
    /\ pc' = "merge"
    /\ calls' = calls + 1
    /\ stage' = NextStage(stage, "merge")
    /\ UNCHANGED <<cls, cfg, dir, dfs, libcall>>

Next ==
    \/ \E c \in Classes : New(c)
    \/ ReadTabularFiles
    \/ AssignSource
    \/ CleanXAvgFrequency
    \/ CleanTikTokRemoveTotal
    \/ CleanTikTokStripMp4Suffix
    \/ Standardize
    \/ MergeAndCollect

Spec == Init /\ [][Next]_vars


(***************************************************************************)
(* Properties.                                                             *)
(***************************************************************************)
\* the criteria assign_source classifies with
CriteriaInUse ==
    IF cls = "apslETL" THEN ApslCriteria
    ELSE IF cfg.criteria.some THEN cfg.criteria.v ELSE DefaultCriteria

\* source k's required columns are all columns of df
Satisfies(df, crit, k) == \A c \in crit[k].cols : \E i \in 1..Len(df) : df[i].name = c

\* df's first column is "Source" and holds the label in every row
Stamped(df, label) ==
    /\ Len(df) >= 1
    /\ df[1].name = "Source"
    /\ \A r \in 1..Len(df[1].vals) : df[1].vals[r] = Str(label)

\* C1: when the criteria share no column, assign_source succeeds and every
\* table whose columns contain the required set of exactly one source is
\* labelled with that source.
C1_ExactlyOneMatch ==
    (pc = "assign" /\ ~SharedColumn(CriteriaInUse)) =>
        /\ err = "none"
        /\ Len(dfs) = Len(prev)
        /\ \A i \in 1..Len(prev) : \A k \in 1..Len(CriteriaInUse) :
              (/\ Satisfies(prev[i], CriteriaInUse, k)
               /\ \A j \in 1..Len(CriteriaInUse) :
                     j # k => ~Satisfies(prev[i], CriteriaInUse, j))
              => Stamped(dfs[i], CriteriaInUse[k].src)

C1_Witness ==
    /\ pc = "assign" /\ err = "none" /\ Len(prev) >= 2
    /\ \E i, j \in 1..Len(prev) :
          /\ Satisfies(prev[i], CriteriaInUse, 1)
          /\ ~Satisfies(prev[i], CriteriaInUse, 2)
          /\ Stamped(dfs[i], CriteriaInUse[1].src)
          /\ Satisfies(prev[j], CriteriaInUse, 2)
          /\ ~Satisfies(prev[j], CriteriaInUse, 1)
          /\ Stamped(dfs[j], CriteriaInUse[2].src)
          /\ Height(dfs[i]) > 0 /\ Height(dfs[j]) > 0

NoMatch(df) == \A k \in 1..Len(CriteriaInUse) : ~Satisfies(df, CriteriaInUse, k)

C4_SharedColumnRejected ==
    (/\ pc = "assign" /\ cls = "MultiSourceAdETL"
     /\ cfg.criteria.some /\ SharedColumn(cfg.criteria.v))
    => (err = "ValueError" /\ dfs = prev)

\* the kind of cell a dtype holds
KindOf(dtype) ==
    CASE dtype = "String" -> "str" [] dtype = "Int64" -> "int"
      [] dtype = "Float64" -> "float" [] dtype = "Date" -> "date"
      [] OTHER -> "null"

\* df has the canonical names, in the canonical order, with the declared
\* dtypes, and every cell is null or of its column's type
Canonical(df, schema) ==
    /\ Len(df) = Len(schema)
    /\ \A i \in 1..Len(df) :
          /\ df[i].name = schema[i][1]
          /\ df[i].dtype = schema[i][2]
          /\ \A r \in 1..Len(df[i].vals) :
                df[i].vals[r].k \in {"null", KindOf(schema[i][2])}

\* C5: when standardize completes, every table of the list has exactly the
\* canonical schema: names, order and types.
C5_CanonicalSchema ==
    (pc = "standardize" /\ err = "none") =>
        /\ Len(dfs) = Len(prev)
        /\ \A i \in 1..Len(dfs) : Canonical(dfs[i], cfg.schema)

C5_Witness ==
    /\ pc = "standardize" /\ err = "none" /\ Len(dfs) >= 2
    /\ \E i, j \in 1..Len(prev) :
          /\ SourceOf(prev[i]).cell # SourceOf(prev[j]).cell
          /\ Columns(prev[i]) # Columns(prev[j])
          /\ Schema(prev[i]) # cfg.schema
          /\ Canonical(dfs[i], cfg.schema) /\ Canonical(dfs[j], cfg.schema)

RECURSIVE ConcatRows(_)
ConcatRows(ds) == IF ds = <<>> THEN <<>> ELSE Rows(Head(ds)) \o ConcatRows(Tail(ds))

RECURSIVE SumHeights(_)
SumHeights(ds) == IF ds = <<>> THEN 0 ELSE Height(Head(ds)) + SumHeights(Tail(ds))

SameSchemas(ds) == \A i \in 1..Len(ds) : Schema(ds[i]) = Schema(ds[1])

\* C6: merge_and_collect over N >= 1 tables of one schema returns a table of
\* that schema whose rows are table 1's rows, then table 2's, and so on: no
\* row is dropped, merged or moved; for N = 1 it is the table itself.
C6_MergeConcatenates ==
    (pc = "merge" /\ dfs # <<>> /\ SameSchemas(dfs)) =>
        /\ err = "none"
        /\ merged.some
        /\ Schema(merged.v) = Schema(dfs[1])
        /\ Height(merged.v) = SumHeights(dfs)
        /\ Rows(merged.v) = ConcatRows(dfs)
        /\ Len(dfs) = 1 => merged.v = dfs[1]

C6_Witness ==
    /\ pc = "merge" /\ err = "none" /\ stage = "Merged" /\ Len(dfs) >= 2
    /\ \A i \in 1..Len(dfs) : Canonical(dfs[i], cfg.schema) /\ Height(dfs[i]) > 0
    /\ Rows(dfs[1]) # Rows(dfs[2])
    /\ Rows(merged.v) = ConcatRows(dfs)

\* C7: merge_and_collect over tables whose schemas differ in a name, in the
\* order of the columns or in a type raises a schema error.
C7_MergeRejectsMismatch ==
    (pc = "merge" /\ dfs # <<>> /\ ~SameSchemas(dfs)) =>
        err \in {"SchemaError", "ShapeError"}

\* two tables with the same columns and types, in different orders
C7_Witness ==
    /\ pc = "merge" /\ err = "SchemaError"
    /\ \E i, j \in 1..Len(dfs) :
          /\ Columns(dfs[i]) # Columns(dfs[j])
          /\ {Schema(dfs[i])[k] : k \in 1..Len(dfs[i])}
               = {Schema(dfs[j])[k] : k \in 1..Len(dfs[j])}

\* the end-to-end scenario: one file of source A, one of source B
C8_Scenario ==
    /\ cls = "MultiSourceAdETL"
    /\ cfg = CfgAB
    /\ dir \in {<<FA, FB>>, <<FB, FA>>}

\* C8: in the scenario, the pipeline run in order (load, classify, clean,
\* standardize, merge) fails at no stage and ends with a 2-row table whose
\* Spend column holds the floats 10.0 and 20.5 and whose Date column is of
\* type Date.
C8_EndToEnd ==
    (C8_Scenario /\ stage \notin {"Configured", "Illegal"}) =>
        /\ err = "none"
        /\ stage = "Merged" =>
              /\ merged.some
              /\ Height(merged.v) = 2
              /\ Columns(merged.v) = <<"Date", "Campaign", "Spend">>
              /\ GetCol(merged.v, "Spend").dtype = "Float64"
              /\ {GetCol(merged.v, "Spend").vals[r] : r \in 1..2}
                    = {Float64(10, 0), Float64(205, 1)}
              /\ GetCol(merged.v, "Date").dtype = "Date"
              /\ \A r \in 1..2 : GetCol(merged.v, "Date").vals[r].k = "date"

\* an X table whose average-frequency column is textual
XTextual(df) ==
    /\ SourceOf(df).err = "none"
    /\ SourceOf(df).cell = Str(XTwitter)
    /\ AvgFreq \in ColSet(df)
    /\ GetCol(df, AvgFreq).dtype = "String"

\* every "-" of a's average-frequency column is the text "0" in b's
DashesZeroed(a, b) ==
    /\ AvgFreq \in ColSet(b)
    /\ Height(b) = Height(a)
    /\ \A r \in 1..Height(a) :
          GetCol(a, AvgFreq).vals[r] = Str(Dash)
              => GetCol(b, AvgFreq).vals[r] = Str(<<"0">>)

\* the canonical column the average frequency is renamed to
FreqTarget == MapGet(cfg.x_mapping.v, AvgFreq)

\* C9: for an X table with a textual average-frequency column, the cleaner
\* (the method of MultiSourceAdETL and the library function) raises nothing
\* and turns every "-" into zero; coercion to the numeric canonical type
\* then yields the number 0, not null.
C9_DashBecomesZero ==
    /\ (pc = "clean_x" /\ cls = "MultiSourceAdETL") =>
          \A i \in 1..Len(prev) : XTextual(prev[i]) =>
              /\ etl_clean_x_avg_frequency(prev[i]).err = "none"
              /\ err = "none" => DashesZeroed(prev[i], dfs[i])
              /\ clean_x_avg_frequency(prev[i]).err = "none"
              /\ DashesZeroed(prev[i], clean_x_avg_frequency(prev[i]).df)
    /\ (/\ pc = "standardize" /\ err = "none" /\ cls = "MultiSourceAdETL"
        /\ cfg.x_mapping.some /\ AvgFreq \in MapKeys(cfg.x_mapping.v)) =>
          \A i \in 1..Len(prev) : XTextual(prev[i]) =>
              \A r \in 1..Height(prev[i]) :
                  /\ GetCol(prev[i], AvgFreq).vals[r] # Str(Dash)
                  /\ GetCol(prev[i], AvgFreq).vals[r] = Str(<<"0">>)
                        => GetCol(dfs[i], FreqTarget).vals[r] = Float64(0, 0)

C9_Witness ==
    /\ pc = "standardize" /\ err = "none" /\ cls = "MultiSourceAdETL"
    /\ stage = "Coerced"
    /\ \E i \in 1..Len(prev) :
          /\ XTextual(prev[i])
          /\ i <= Len(dir) /\ dir[i] = FX
          /\ GetCol(prev[i], AvgFreq).vals[1] = Str(<<"0">>)
          /\ GetCol(dfs[i], "Frequency").vals[1] = Float64(0, 0)
          /\ GetCol(dfs[i], "Frequency").vals[2] = Float64(15, 1)

\* C10: a second clean_x_avg_frequency right after a first succeeds and
\* leaves every table as the first left it.
C10_Idempotent ==
    [][(pc = "clean_x" /\ pc' = "clean_x") => (err' = "none" /\ dfs' = dfs)]_vars

\* standardize's loop body applied to df under the run's configuration
StandardizeOf(df) ==
    standardize_df(df, cfg.schema, cfg.meta_mapping, cfg.tiktok_mapping,
                   cfg.x_mapping)

\* df's source is resolved and no rename mapping is registered for it
Unmapped(df) ==
    /\ SourceOf(df).err = "none"
    /\ \/ SourceOf(df).cell = Str(Meta) /\ ~cfg.meta_mapping.some
       \/ SourceOf(df).cell = Str(TikTok) /\ ~cfg.tiktok_mapping.some
       \/ SourceOf(df).cell = Str(XTwitter) /\ ~cfg.x_mapping.some
       \/ SourceOf(df).cell \notin {Str(Meta), Str(TikTok), Str(XTwitter)}

\* C11: when a table's resolved source has no registered rename mapping (its
\* mapping argument omitted, or the label "Unknown"), standardize fails and
\* renames or coerces nothing: the table list stays as it was, nothing is
\* merged, and the error is the missing-mapping ValueError whenever the
\* tables before that one standardize without error.
C11_MissingMapping ==
    (pc = "standardize" /\ \E i \in 1..Len(prev) : Unmapped(prev[i])) =>
        /\ err # "none"
        /\ dfs = prev
        /\ \A i \in 1..Len(prev) :
              (/\ Unmapped(prev[i])
               /\ \A j \in 1..(i - 1) : StandardizeOf(prev[j]).err = "none")
              => err = "ValueError"

\* a mapped table standardizes, the table after it is labelled "Unknown"
C11_Witness ==
    /\ pc = "standardize" /\ err = "ValueError" /\ Len(prev) = 2
    /\ StandardizeOf(prev[1]).err = "none"
    /\ Unmapped(prev[2]) /\ SourceOf(prev[2]).cell = Str(Unknown)
    /\ dfs = prev /\ ~merged.some

\* C12: a stage call that fails produces no merged table and leaves the
\* table list exactly as the call found it.
C12_FailsAtomically ==
    [][err' # "none" => (dfs' = dfs /\ merged' = merged)]_vars

\* C13: a merged table is returned only by the calls made in the order of
\* the stages (load, classify, clean, standardize, merge): a stage method
\* called out of that order fails.
C13_OrderEnforced ==
    [][merged' # merged => stage' = "Merged"]_vars

\* the label classification gives df: the first source of the criteria in
\* use whose required columns df has, "Unknown" when there is none
Detected(df) ==
    IF NoMatch(df) THEN Unknown
    ELSE CriteriaInUse[CHOOSE k \in 1..Len(CriteriaInUse) :
            /\ Satisfies(df, CriteriaInUse, k)
            /\ \A j \in 1..(k - 1) : ~Satisfies(df, CriteriaInUse, j)].src

\* the columns of df other than "Source", in their order
NonSource(df) == SelectSeq(df, LAMBDA c : c.name # "Source")

\* C14: after assign_source every table's first column is "Source", of
\* type String, holding the table's detected source in every row; the other
\* columns follow with their names, order, types and values as before; a
\* "Source" column the table already had is replaced, not duplicated.
C14_SourceColumnFirst ==
    (pc = "assign" /\ err = "none") =>
        /\ Len(dfs) = Len(prev)
        /\ \A i \in 1..Len(dfs) :
              /\ Stamped(dfs[i], Detected(prev[i]))
              /\ dfs[i][1].dtype = "String"
              /\ Height(dfs[i]) = Height(prev[i])
              /\ SubSeq(dfs[i], 2, Len(dfs[i])) = NonSource(prev[i])
              /\ Cardinality({k \in 1..Len(dfs[i]) : dfs[i][k].name = "Source"}) = 1

\* a table read with a "Source" column of its own, in second place
C14_Witness ==
    /\ pc = "assign" /\ err = "none" /\ stage = "Classified"
    /\ \E i \in 1..Len(prev) :
          /\ Len(prev[i]) = 3 /\ prev[i][2].name = "Source"
          /\ prev[i][2].vals[1] # Str(Meta)
          /\ Columns(dfs[i]) = <<"Source", "Campaign name", "Day">>
          /\ dfs[i][1].vals = <<Str(Meta)>>

\* the sources of the criteria in use whose required columns df has
Satisfied(df) ==
    {k \in 1..Len(CriteriaInUse) : Satisfies(df, CriteriaInUse, k)}

\* C15: a table whose columns contain the required sets of more than one
\* source is labelled with the one of them that comes first in the order of
\* the source criteria.
C15_FirstConfiguredWins ==
    (pc = "assign" /\ err = "none") =>
        \A i \in 1..Len(prev) : Cardinality(Satisfied(prev[i])) >= 2 =>
            \E k \in Satisfied(prev[i]) :
                /\ \A j \in Satisfied(prev[i]) : k <= j
                /\ Stamped(dfs[i], CriteriaInUse[k].src)

\* the table fits Meta and TikTok; TikTok, configured first, wins
C15_Witness ==
    /\ pc = "assign" /\ err = "none" /\ cfg.criteria.some
    /\ cls = "MultiSourceAdETL"
    /\ \E i \in 1..Len(prev) :
          /\ Satisfied(prev[i]) = {1, 2}
          /\ CriteriaInUse[1].src = TikTok /\ CriteriaInUse[2].src = Meta
          /\ Stamped(dfs[i], TikTok) /\ Height(dfs[i]) > 0

\* C16: every table read_tabular_files produces has all its columns typed
\* as text.
C16_ReaderAllText ==
    (pc = "read" /\ err = "none") =>
        \A i \in 1..Len(dfs) : \A k \in 1..Len(dfs[i]) : dfs[i][k].dtype = "String"

\* the orders in which the sources of crit can be configured
Orders(crit) ==
    {p \in [1..Len(crit) -> {crit[i] : i \in 1..Len(crit)}] :
        \A i, j \in 1..Len(crit) : p[i] = p[j] => i = j}

\* C17 as stated: when no column is required by two sources, every table
\* satisfies at most one source, and its label is the same under every
\* order of the sources.
C17_Original ==
    (pc = "assign" /\ err = "none" /\ ~SharedColumn(CriteriaInUse)) =>
        \A i \in 1..Len(prev) :
            /\ Cardinality(Satisfied(prev[i])) <= 1
            /\ \A p \in Orders(CriteriaInUse) :
                  Stamped(dfs[i], FirstMatch(p, ColSet(prev[i])))

\* C17 amended: when no column is required by two sources, a table that
\* satisfies at most one source gets the same label under every order of
\* the sources; a table that satisfies several gets the one configured
\* first, and another order of the sources gives it another label.
C17_OrderMattersOnlyWhenSeveralMatch ==
    (pc = "assign" /\ err = "none" /\ ~SharedColumn(CriteriaInUse)) =>
        \A i \in 1..Len(prev) :
            /\ Cardinality(Satisfied(prev[i])) <= 1 =>
                  \A p \in Orders(CriteriaInUse) :
                      Stamped(dfs[i], FirstMatch(p, ColSet(prev[i])))
            /\ Cardinality(Satisfied(prev[i])) >= 2 =>
                  /\ Stamped(dfs[i], FirstMatch(CriteriaInUse, ColSet(prev[i])))
                  /\ \E p \in Orders(CriteriaInUse) :
                        FirstMatch(p, ColSet(prev[i]))
                            # FirstMatch(CriteriaInUse, ColSet(prev[i]))

\* under the default criteria, which share no column, a table satisfies
\* Meta and TikTok and is labelled Meta
C17_Witness ==
    /\ pc = "assign" /\ err = "none" /\ ~cfg.criteria.some
    /\ ~SharedColumn(CriteriaInUse)
    /\ \E i \in 1..Len(prev) :
          /\ Cardinality(Satisfied(prev[i])) = 2
          /\ Stamped(dfs[i], Meta) /\ Height(dfs[i]) > 0
          /\ \E p \in Orders(CriteriaInUse) : FirstMatch(p, ColSet(prev[i])) = TikTok

\* the rename mapping standardize uses for df
MappingOf(df) ==
    mapping_lookup(SourceOf(df).cell, cfg.meta_mapping, cfg.tiktok_mapping,
                   cfg.x_mapping).v

\* the columns of df that carry the name c once df is renamed
Origin(df, c) ==
    {k \in 1..Len(df) :
        IF df[k].name \in MapKeys(MappingOf(df))
        THEN MapGet(MappingOf(df), df[k].name) = c
        ELSE df[k].name = c}

\* C18: when standardize completes, every table has the canonical columns
\* and no other; a canonical column the renamed table lacked is null in
\* every row; each other canonical column holds, row by row in the original
\* order, the values of the column renamed to it, cast to the declared
\* type; the row count is unchanged.
C18_FillSelectKeepRows ==
    (pc = "standardize" /\ err = "none") =>
        \A i \in 1..Len(prev) :
            /\ Columns(dfs[i]) = SchemaKeys(cfg.schema)
            /\ Height(dfs[i]) = Height(prev[i])
            /\ \A c \in 1..Len(cfg.schema) :
                  LET o == Origin(prev[i], cfg.schema[c][1])
                  IN  /\ o = {} =>
                            \A r \in 1..Height(prev[i]) : dfs[i][c].vals[r] = Null
                      /\ \A k \in o : \A r \in 1..Height(prev[i]) :
                            dfs[i][c].vals[r] =
                                CastCell(prev[i][k].vals[r], cfg.schema[c][2])

\* an X table of two rows: "Clicks" is dropped, "Impressions" is added as
\* nulls, and the two days stay in their order
C18_Witness ==
    /\ pc = "standardize" /\ err = "none"
    /\ \E i \in 1..Len(prev) :
          /\ Height(prev[i]) = 2
          /\ "Clicks" \in ColSet(prev[i]) /\ "Clicks" \notin ColSet(dfs[i])
          /\ "Impressions" \notin ColSet(prev[i])
          /\ GetCol(dfs[i], "Impressions").vals = <<Null, Null>>
          /\ GetCol(prev[i], "Time period").vals[1] # GetCol(prev[i], "Time period").vals[2]
          /\ GetCol(dfs[i], "Day").vals
                = <<ParseDate(GetCol(prev[i], "Time period").vals[1].s),
                    ParseDate(GetCol(prev[i], "Time period").vals[2].s)>>

\* a text with non-numeric residue: a thousands separator, a currency glyph
\* or the bare dash
Residue(c) ==
    /\ c.k = "str"
    /\ \/ c.s = Dash
       \/ \E i \in 1..Len(c.s) : c.s[i] \in {",", "$"}

\* df reaches the cast of standardize (source resolved, mapping registered,
\* rename accepted) with such a text in a column whose canonical type is
\* Int64 or Float64
ResidueInNumeric(df) ==
    /\ SourceOf(df).err = "none"
    /\ ~Unmapped(df)
    /\ Rename(df, MappingOf(df)).err = "none"
    /\ \E c \in 1..Len(cfg.schema) :
          /\ cfg.schema[c][2] \in {"Int64", "Float64"}
          /\ \E k \in Origin(df, cfg.schema[c][1]) :
                \E r \in 1..Height(df) : Residue(df[k].vals[r])

\* C19: a table that holds a text with non-numeric residue in a column of
\* canonical type integer or float makes standardize fail; the table list
\* stays as it was, so no null and no altered number comes out; the error is
\* the cast error whenever the tables before that one standardize.
C19_NumericCastFailsLoudly ==
    (pc = "standardize" /\ \E i \in 1..Len(prev) : ResidueInNumeric(prev[i])) =>
        /\ err # "none"
        /\ dfs = prev
        /\ \A i \in 1..Len(prev) :
              (/\ ResidueInNumeric(prev[i])
               /\ \A j \in 1..(i - 1) : StandardizeOf(prev[j]).err = "none")
              => err = "InvalidOperationError"

\* impressions "1,234" and "$5" under the canonical type Int64
C19_Witness ==
    /\ pc = "standardize" /\ err = "InvalidOperationError" /\ dfs = prev
    /\ \E i \in 1..Len(prev) :
          /\ ResidueInNumeric(prev[i])
          /\ "Impressions" \in ColSet(prev[i])
          /\ GetCol(prev[i], "Impressions").vals[1] = Str(<<"1", ",", "2", "3", "4">>)
          /\ GetCol(prev[i], "Impressions").vals[2] = Str(<<"$", "5">>)

\* the source a cleaning step is written for
TargetOf(step) == IF step = "clean_x" THEN XTwitter ELSE TikTok

\* df carries a source label, and it is not the step's target
NonTarget(df, step) ==
    /\ SourceOf(df).err = "none"
    /\ SourceOf(df).cell # Str(TargetOf(step))

\* C20: a cleaning step leaves every table whose Source is not its target
\* source as it was (names, order, types, rows, values) and where it was in
\* the list; a list of such tables only passes through without error.
C20_OtherSourcesUntouched ==
    pc \in CleanSteps =>
        /\ Len(dfs) = Len(prev)
        /\ \A i \in 1..Len(prev) : NonTarget(prev[i], pc) => dfs[i] = prev[i]
        /\ (\A i \in 1..Len(prev) : NonTarget(prev[i], pc)) => err = "none"

\* the TikTok table loses its summary row, the Meta table before it stays
C20_Witness ==
    /\ pc = "clean_total" /\ err = "none" /\ Len(prev) = 2
    /\ NonTarget(prev[1], pc) /\ SourceOf(prev[1]).cell = Str(Meta)
    /\ dfs[1] = prev[1]
    /\ SourceOf(prev[2]).cell = Str(TikTok)
    /\ Height(dfs[2]) < Height(prev[2])

\* row is a summary row: its second cell is a text that starts with "Total"
IsTotalRow(row) ==
    /\ row[2].k = "str"
    /\ Len(row[2].s) >= 5
    /\ SubSeq(row[2].s, 1, 5) = <<"T", "o", "t", "a", "l">>

\* b is a without its summary rows: same columns, the other rows in order
WithoutTotals(a, b) ==
    /\ Schema(b) = Schema(a)
    /\ Rows(b) = SelectSeq(Rows(a), LAMBDA row : ~IsTotalRow(row))

\* a TikTok table whose second column is textual
TikTokTextual(df) ==
    /\ SourceOf(df).err = "none"
    /\ SourceOf(df).cell = Str(TikTok)
    /\ Len(df) >= 2 /\ df[2].dtype = "String"

\* C21: the summary-row cleaner (the method and the library function) drops
\* exactly the rows whose value in the second column, taken by position,
\* starts with "Total"; the other rows stay, in order, all columns unchanged.
C21_DropsTotalRows ==
    pc = "clean_total" =>
        \A i \in 1..Len(prev) : TikTokTextual(prev[i]) =>
            /\ err = "none" => WithoutTotals(prev[i], dfs[i])
            /\ clean_tiktok_remove_total_df(prev[i]).err = "none"
            /\ remove_tiktok_total_row(prev[i]).err = "none"
            /\ WithoutTotals(prev[i], remove_tiktok_total_row(prev[i]).df)

\* the summary row sits between two data rows, and "Total" also occurs in a
\* column that is not inspected
C21_Witness ==
    /\ pc = "clean_total" /\ err = "none"
    /\ \E i \in 1..Len(prev) :
          /\ TikTokTextual(prev[i])
          /\ Height(prev[i]) = 3 /\ Height(dfs[i]) = 2
          /\ IsTotalRow(Row(prev[i], 2))
          /\ Rows(dfs[i]) = <<Row(prev[i], 1), Row(prev[i], 3)>>
          /\ Row(prev[i], 1)[4] = Str(<<"T", "o", "t", "a", "l">>)

\* an X table whose average-frequency column is not textual
XNumeric(df) ==
    /\ SourceOf(df).err = "none"
    /\ SourceOf(df).cell = Str(XTwitter)
    /\ AvgFreq \in ColSet(df)
    /\ GetCol(df, AvgFreq).dtype # "String"

\* C22: the placeholder-to-zero cleaner (every class's method and the library
\* function) returns an X table whose average-frequency column is numeric
\* unchanged and without error; a table it changes is an X table whose
\* average-frequency column is textual.
C22_NumericUntouched ==
    pc = "clean_x" =>
        /\ Len(dfs) = Len(prev)
        /\ \A i \in 1..Len(prev) :
              /\ XNumeric(prev[i]) =>
                    /\ etl_clean_x_avg_frequency(prev[i]) = Ok(prev[i])
                    /\ clean_x_avg_frequency(prev[i]) = Ok(prev[i])
                    /\ dfs[i] = prev[i]
              /\ dfs[i] # prev[i] => XTextual(prev[i])

\* a numeric table stays, the textual one after it is changed
C22_Witness ==
    /\ pc = "clean_x" /\ err = "none" /\ Len(prev) = 2
    /\ XNumeric(prev[1]) /\ GetCol(prev[1], AvgFreq).dtype = "Float64"
    /\ dfs[1] = prev[1]
    /\ XTextual(prev[2]) /\ dfs[2] # prev[2]

\* the column a cleaning step works on; the summary-row step takes its
\* column by position and names none
ExpectedColumn(step) ==
    IF step = "clean_x" THEN AvgFreq ELSE "Ad name"

\* df is of the step's target source and lacks the column the step expects
TargetLacksColumn(df, step) ==
    /\ step \in {"clean_x", "clean_mp4"}
    /\ SourceOf(df).err = "none"
    /\ SourceOf(df).cell = Str(TargetOf(step))
    /\ ExpectedColumn(step) \notin ColSet(df)

\* C25: a cleaning step that meets a table of its target source without the
\* column it expects fails (KeyError from the schema lookup,
\* ColumnNotFoundError from the expression) and the table list stays as it
\* was: the table is neither skipped nor passed on; the library functions
\* fail on it alike.
C25_MissingColumnFails ==
    (pc \in CleanSteps /\ \E i \in 1..Len(prev) : TargetLacksColumn(prev[i], pc)) =>
        /\ err # "none"
        /\ dfs = prev
        /\ \A i \in 1..Len(prev) : TargetLacksColumn(prev[i], pc) =>
              /\ pc = "clean_x" =>
                    /\ etl_clean_x_avg_frequency(prev[i]).err = "KeyError"
                    /\ apsl_clean_x_avg_frequency(prev[i]).err = "KeyError"
                    /\ clean_x_avg_frequency(prev[i]).err = "KeyError"
              /\ pc = "clean_mp4" =>
                    /\ clean_tiktok_strip_mp4_suffix_df(prev[i]).err
                          = "ColumnNotFoundError"
                    /\ strip_tiktok_mp4_suffix(prev[i]).err = "ColumnNotFoundError"
              /\ (\A j \in 1..(i - 1) : NonTarget(prev[j], pc)) =>
                    err \in {"KeyError", "ColumnNotFoundError"}

\* a Meta table passes, the TikTok table after it has no "Ad name"
C25_Witness ==
    /\ pc = "clean_mp4" /\ err = "ColumnNotFoundError" /\ Len(prev) = 2
    /\ NonTarget(prev[1], pc)
    /\ TargetLacksColumn(prev[2], pc)
    /\ dfs = prev

\* the files of the listing d that the reader takes
Tabular(d) ==
    SelectSeq(d, LAMBDA f : Lower(f.suffix) \in {CsvSuffix, XlsxSuffix})

\* C26: whenever read_tabular_files returns, the table list holds exactly
\* one table for each .csv or .xlsx file of the directory: no file is
\* loaded twice, whatever calls came before.
C26_ReadOnce ==
    [][(pc' = "read" /\ err' = "none") => Len(dfs') = Len(Tabular(dir))]_vars

\* the loop body of a per-table stage, applied to df
LoopBody(step, df) ==
    CASE step = "assign" -> assign_source_df(cls, df, cfg.criteria)
      [] step = "clean_x" ->
            (IF cls = "apslETL" THEN apsl_clean_x_avg_frequency(df)
             ELSE etl_clean_x_avg_frequency(df))
      [] step = "clean_total" -> clean_tiktok_remove_total_df(df)
      [] step = "clean_mp4" -> clean_tiktok_strip_mp4_suffix_df(df)
      [] step = "standardize" -> StandardizeOf(df)

\* C28: when assign_source, a clean step or standardize returns, the list
\* has as many tables as before and its i-th table is the loop body's result
\* for the i-th table before: every table was processed, none moved.
C28_ListShapeKept ==
    (pc \in {"assign", "standardize"} \cup CleanSteps /\ err = "none") =>
        /\ Len(dfs) = Len(prev)
        /\ \A i \in 1..Len(prev) :
              /\ LoopBody(pc, prev[i]).err = "none"
              /\ dfs[i] = LoopBody(pc, prev[i]).df

\* two tables of different sources standardized, each in its place
C28_Witness ==
    /\ pc = "standardize" /\ err = "none" /\ Len(prev) >= 2
    /\ SourceOf(prev[1]).cell # SourceOf(prev[2]).cell
    /\ dfs[1] # dfs[2]
    /\ dfs[1] = StandardizeOf(prev[1]).df
    /\ dfs[2] = StandardizeOf(prev[2]).df
    /\ dfs[1] # prev[1] /\ dfs[2] # prev[2]

\* a classified table without a data row
ZeroRows(df) == "Source" \in ColSet(df) /\ Height(df) = 0

\* C29: in a run whose calls are in the order of the stages, a clean step
\* or standardize that meets a classified table with zero data rows does not
\* fail on it.
C29_ZeroRowTablePasses ==
    (/\ stage \in {"Cleaned", "Coerced"}
     /\ \E i \in 1..Len(prev) : ZeroRows(prev[i]))
    => err # "IndexError"

\* C30: on an X table whose average-frequency column is textual the three
\* placeholder-to-zero cleaners (MultiSourceAdETL's, apslETL's and the
\* library's) succeed and return the same table.
C30_CleanersAgree ==
    pc = "clean_x" =>
        \A i \in 1..Len(prev) : XTextual(prev[i]) =>
            /\ etl_clean_x_avg_frequency(prev[i]).err = "none"
            /\ apsl_clean_x_avg_frequency(prev[i]) = etl_clean_x_avg_frequency(prev[i])
            /\ clean_x_avg_frequency(prev[i]) = etl_clean_x_avg_frequency(prev[i])

(***************************************************************************)
(* The spreadsheet range of a table: utils.df_to_a1 and apslETL's          *)
(* df_to_a1_range.  The inner loop _int_to_bijective_base_26 is run one    *)
(* iteration per step, first for a1_start, then for a1_end.                *)
(***************************************************************************)
\* the pipeline's variables, which a library call leaves alone
pipeline == <<cls, cfg, dir, dfs, prev, merged, pc, err, calls, stage>>

\* no pipeline is running
NoPipeline ==
    /\ cls = "none" /\ cfg = CfgKcon /\ dir = <<>> /\ dfs = <<>> /\ prev = <<>>
    /\ merged = None /\ pc = "start" /\ err = "none" /\ calls = 0
    /\ stage = "Configured"

Letters ==
    << "A", "B", "C", "D", "E", "F", "G", "H", "I", "J", "K", "L", "M",
       "N", "O", "P", "Q", "R", "S", "T", "U", "V", "W", "X", "Y", "Z" >>

\* chr(65 + r)
Chr65(r) == Letters[r + 1]

\* the division of plain base 26
PlainDivmod(n) == [q |-> n \div 26, r |-> n % 26]

\* n, r = divmod(n - 1, 26)
BijectiveDivmod(n) == [q |-> (n - 1) \div 26, r |-> (n - 1) % 26]

\* an offset that is not given: vertical_offset = None
Absent == [some |-> FALSE, v |-> 0]

\* vertical_offset or 0
OrZero(o) == IF o.some THEN o.v ELSE 0

\* df.shape of the tables given: <<rows, columns>>
Shapes == {<<r, w>> : r \in 0..2, w \in 1..3}

VOffsets == {Absent} \cup {Some(k) : k \in {0, 1, 9}}

HOffsets == {Absent} \cup {Some(k) : k \in {0, 1, 23, 24, 25, 26, 49, 50, 51, 700}}

A1Calls ==
    {[fn |-> "df_to_a1", range_mode |-> m] : m \in {"column_range", "full_range"}}
        \cup {[fn |-> "df_to_a1_range", range_mode |-> "full_range"]}

A1Init ==
    /\ NoPipeline
    /\ libcall \in
          {[fn |-> c.fn, range_mode |-> c.range_mode, shape |-> sh,
            vertical_offset |-> v, horizontal_offset |-> h,
            phase |-> "call", n |-> 0, last |-> 0, s |-> <<>>,
            a1_start |-> <<>>, a1_end |-> <<>>, out |-> <<>>] :
              c \in A1Calls, sh \in Shapes, v \in VOffsets, h \in HOffsets}

\* the call of _int_to_bijective_base_26(1 + h_offset)
A1Start ==
    /\ libcall.phase = "call"
    /\ libcall' = [libcall EXCEPT !.phase = "a1_start",
                       !.n = 1 + OrZero(libcall.horizontal_offset),
                       !.last = 1 + OrZero(libcall.horizontal_offset),
                       !.s = <<>>]
    /\ UNCHANGED pipeline

\* one iteration of `while n > 0`
A1Loop ==
    /\ libcall.phase \in {"a1_start", "a1_end"}
    /\ libcall.n > 0
    /\ libcall' = [libcall EXCEPT !.n = BijectiveDivmod(libcall.n).q,
                       !.last = libcall.n,
                       !.s = <<Chr65(BijectiveDivmod(libcall.n).r)>> \o libcall.s]
    /\ UNCHANGED pipeline

\* the first loop is left: a1_start is set, and
\* _int_to_bijective_base_26(df_width + h_offset) is called
A1End ==
    /\ libcall.phase = "a1_start"
    /\ ~(libcall.n > 0)
    /\ libcall' = [libcall EXCEPT !.phase = "a1_end",
                       !.a1_start = libcall.s,
                       !.n = libcall.shape[2] + OrZero(libcall.horizontal_offset),
                       !.last = libcall.shape[2] + OrZero(libcall.horizontal_offset),
                       !.s = <<>>]
    /\ UNCHANGED pipeline

\* the second loop is left: the f-strings are built and one is returned
A1Return ==
    /\ libcall.phase = "a1_end"
    /\ ~(libcall.n > 0)
    /\ LET a1_end == libcall.s
           int_start == 1 + OrZero(libcall.vertical_offset)
           int_end == libcall.shape[1] + 1 + OrZero(libcall.vertical_offset)
           column_range == libcall.a1_start \o <<":">> \o a1_end
           full_range == libcall.a1_start \o IntText(int_start) \o <<":">>
                            \o a1_end \o IntText(int_end)
       IN  libcall' = [libcall EXCEPT !.phase = "done",
                           !.a1_end = a1_end,
                           !.out = IF libcall.range_mode = "column_range"
                                   THEN column_range ELSE full_range]
    /\ UNCHANGED pipeline

A1Next == A1Start \/ A1Loop \/ A1End \/ A1Return

SpecA1 == A1Init /\ [][A1Next]_vars

\* the number a column label stands for: A = 1, ..., Z = 26, AA = 27
RECURSIVE LabelValue(_)
LabelValue(s) ==
    IF s = <<>> THEN 0
    ELSE 26 * LabelValue(SubSeq(s, 1, Len(s) - 1)) + IndexOf(Letters, s[Len(s)])

\* s is the label of column n
IsLabel(s, n) ==
    /\ \A i \in 1..Len(s) : IndexOf(Letters, s[i]) > 0
    /\ LabelValue(s) = n
    /\ n = 1 => s = <<"A">>
    /\ n = 26 => s = <<"Z">>
    /\ n = 27 => s = <<"A", "A">>
    /\ n = 52 => s = <<"A", "Z">>

\* C27: for a table of r rows and w >= 1 columns and offsets v, h >= 0 (an
\* absent offset counting as 0), df_to_a1 in full_range mode and
\* df_to_a1_range return L(1+h) (1+v) ":" L(w+h) (r+1+v), and df_to_a1 in
\* column_range mode returns L(1+h) ":" L(w+h), L(n) being the bijective
\* base-26 label of n; each iteration of the label loop makes n smaller and
\* never negative, so the loop ends.
C27_A1Range ==
    LET r == libcall.shape[1]
        w == libcall.shape[2]
        v == OrZero(libcall.vertical_offset)
        h == OrZero(libcall.horizontal_offset)
    IN  /\ libcall.phase \in {"a1_start", "a1_end"} =>
              /\ libcall.n >= 0
              /\ libcall.s # <<>> => libcall.n < libcall.last
        /\ libcall.phase = "done" =>
              /\ IsLabel(libcall.a1_start, 1 + h)
              /\ IsLabel(libcall.a1_end, w + h)
              /\ libcall.range_mode = "full_range" =>
                    libcall.out = libcall.a1_start \o NatText(1 + v) \o <<":">>
                                    \o libcall.a1_end \o NatText(r + 1 + v)
              /\ libcall.range_mode = "column_range" =>
                    libcall.out = libcall.a1_start \o <<":">> \o libcall.a1_end

\* 2 rows and 3 columns, shifted by 9 rows and 26 columns: "AA10:AC12"
C27_Witness ==
    /\ libcall.phase = "done" /\ libcall.fn = "df_to_a1"
    /\ libcall.shape = <<2, 3>>
    /\ libcall.out = <<"A", "A", "1", "0", ":", "A", "C", "1", "2">>

(***************************************************************************)
(* The cleaners of Naver GFA exports in data_clean_lib.  A character that  *)
(* is not ASCII is written as its code point; the column names are the     *)
(* code points of their characters.                                        *)
(***************************************************************************)
Ko ==
    [ Se |-> "U+C138",
      I |-> "U+C774",
      Sang |-> "U+C0C1",
      Yeon |-> "U+C5F0",
      Ryeong |-> "U+B839",
      Mo |-> "U+BAA8",
      Reum |-> "U+B984",
      Seong |-> "U+C131",
      Byeol |-> "U+BCC4",
      Nam |-> "U+B0A8",
      Ja |-> "U+C790",
      Yeo |-> "U+C5EC",
      Dae |-> "U+B300",
      EnDash |-> "U+2013",
      EmDash |-> "U+2014" ]

\* the columns "age and gender", "age", "gender" and "period"
AgeGenderCol == "U+C5F0 U+B839 U+0020 U+BC0F U+0020 U+C131 U+BCC4"
AgeCol == "U+C5F0 U+B839"
GenderCol == "U+C131"
DateCol == "U+AE30 U+AC04"

\* the characters \s matches
Whitespace == {" ", "\t"}

RECURSIVE StripStart(_)
StripStart(s) ==
    IF s # <<>> /\ Head(s) \in Whitespace THEN StripStart(Tail(s)) ELSE s

RECURSIVE StripEnd(_)
StripEnd(s) ==
    IF s # <<>> /\ s[Len(s)] \in Whitespace
    THEN StripEnd(SubSeq(s, 1, Len(s) - 1)) ELSE s

\* .str.strip_chars()
StripChars(s) == StripEnd(StripStart(s))

\* .str.replace_all of single characters: each character of from becomes to
ReplaceChars(s, from, to) ==
    [i \in 1..Len(s) |-> IF s[i] \in from THEN to ELSE s[i]]

\* the dots replaced before the trailing dot is taken off
DateTextDotsFirst(c) ==
    IF c.k = "null" THEN Null
    ELSE StripSuffix(Str(ReplaceChars(StripChars(c.s), {"."}, "-")), <<".">>)

\* the expression of clean_naver_gfa_date on one cell, cast to Utf8 before
DateTextOf(c) ==
    IF c.k = "null" THEN Null
    ELSE Str(ReplaceChars(StripSuffix(Str(StripChars(c.s)), <<".">>).s, {"."}, "-"))

\* data_clean_lib.clean_naver_gfa_date
clean_naver_gfa_date(df) ==
    IF DateCol \notin ColSet(df) THEN Raise("ColumnNotFoundError")
    ELSE LET c == GetCol(df, DateCol)
         IN  Ok(WithColumn(df, Col(DateCol, "String",
                    [r \in 1..Len(c.vals) |->
                        DateTextOf(CastCell(c.vals[r], "String"))])))

\* every text of at most n characters of the alphabet
RECURSIVE TextsUpTo(_, _)
TextsUpTo(alphabet, n) ==
    IF n = 0 THEN {<<>>}
    ELSE LET shorter == TextsUpTo(alphabet, n - 1)
         IN  shorter \cup {<<a>> \o t : a \in alphabet, t \in shorter}

\* the values of the period column considered
DateTexts ==
    { <<"2", "0", "2", "6", ".", "0", "2", ".", "0", "9", ".">>,
      <<" ", "2", "0", "2", "6", ".", "0", "2", ".", "0", "9", ".", " ">>,
      <<"2", "0", "2", "6", ".", "0", "2", ".", "0", "9">>,
      <<"2", "0", "2", "6", ".", "0", "2", ".", "0", "9", ".", ".">>,
      <<"2", "0", "2", "6", "-", "0", "2", "-", "0", "9">>,
      <<"2", "0", "2", "6", ".", "2", ".", "9", ".">>,
      <<"\t", "2", "0", "2", "6", ".", "1", "2", ".", "3", "1", ".", "\t">>,
      <<"2", "0", "2", "6", ".", " ", "0", "2", ".", " ", "0", "9", ".">>,
      <<>> }
        \cup TextsUpTo({"7", ".", " "}, 4)

\* a Naver GFA export of one row per value, the period in second place
DateTables ==
    {<< Col("Cost", "Int64", <<Int64(3)>>),
        Col(DateCol, "String", <<Str(t)>>),
        Col(AgeGenderCol, "String", <<Str(<<"2", "0", "-", "2", "4">>)>>) >> :
          t \in DateTexts}
      \cup
    {<< Col("Cost", "Int64", <<Int64(3), Int64(4), Int64(5)>>),
        Col(DateCol, "String",
            <<Str(<<"2", "0", "2", "6", ".", "0", "2", ".", "0", "9", ".">>), Null,
              Str(<<"2", "0", "2", "6", ".", "0", "2", ".", "1", "0", ".">>)>>) >>,
     << Col(DateCol, "Date", <<Date(20493)>>) >>,
     << Col("Cost", "Int64", <<Int64(3)>>) >>}

\* .str.replace_all(r"\s+", " ")
RECURSIVE CollapseSpaces(_)
CollapseSpaces(s) ==
    IF s = <<>> THEN <<>>
    ELSE IF Head(s) \in Whitespace THEN <<" ">> \o CollapseSpaces(StripStart(s))
    ELSE <<Head(s)>> \o CollapseSpaces(Tail(s))

\* .str.replace_all(r"\s*X\s*", to) for a character X: from left to right,
\* each X with the whitespace around it becomes to
RECURSIVE ReplacePadded(_, _, _)
ReplacePadded(s, x, to) ==
    IF s = <<>> THEN <<>>
    ELSE LET t == StripStart(s)
         IN  IF t # <<>> /\ Head(t) = x
             THEN to \o ReplacePadded(StripStart(Tail(t)), x, to)
             ELSE <<Head(s)>> \o ReplacePadded(Tail(s), x, to)

\* the digits \d{1,2} takes at the head of s: two if it can, since what
\* follows it in both patterns is no digit
Digits12(s) ==
    IF s = <<>> \/ s[1] \notin Digits THEN 0
    ELSE IF Len(s) >= 2 /\ s[2] \in Digits THEN 2 ELSE 1

\* the match of (\d{1,2})\s*-\s*(\d{1,2}) at the head of s; <<>> if none
RangeAtHead(s) ==
    LET d1 == Digits12(s)
        a == StripStart(SubSeq(s, d1 + 1, Len(s)))
        b == IF a # <<>> /\ Head(a) = "-" THEN StripStart(Tail(a)) ELSE <<>>
        d2 == Digits12(b)
    IN  IF d1 = 0 \/ d2 = 0 THEN <<>>
        ELSE SubSeq(s, 1, Len(s) - Len(b) + d2)

\* .str.extract(r"(\d{1,2})\s*-\s*(\d{1,2})", 0): the leftmost match, or null
RECURSIVE ExtractRange(_)
ExtractRange(s) ==
    IF s = <<>> THEN Null
    ELSE IF RangeAtHead(s) # <<>> THEN Str(RangeAtHead(s))
    ELSE ExtractRange(Tail(s))

\* group 1 of the match of (\d{1,2})\s*XY at the head of s; <<>> if none
PlusAtHead(s) ==
    LET d1 == Digits12(s)
        a == StripStart(SubSeq(s, d1 + 1, Len(s)))
    IN  IF d1 > 0 /\ Len(a) >= 2 /\ a[1] = Ko.I /\ a[2] = Ko.Sang
        THEN SubSeq(s, 1, d1) ELSE <<>>

\* .str.extract(r"(\d{1,2})\s*<I><Sang>", 1)
RECURSIVE ExtractPlus(_)
ExtractPlus(s) ==
    IF s = <<>> THEN Null
    ELSE IF PlusAtHead(s) # <<>> THEN Str(PlusAtHead(s))
    ELSE ExtractPlus(Tail(s))

\* .str.contains(sub), sub a literal
Contains(s, sub) ==
    \E i \in 1..(Len(s) - Len(sub) + 1) : SubSeq(s, i, i + Len(sub) - 1) = sub

UnknownText == <<"u", "n", "k", "n", "o", "w", "n">>
MaleText == <<"m", "a", "l", "e">>
FemaleText == <<"f", "e", "m", "a", "l", "e">>

\* s: the cell cast to text, stripped, its whitespace runs made one space
NormalText(c) == CollapseSpaces(StripChars(c.s))

\* the age expression on one cell
AgeOf(c) ==
    IF c.k = "null" THEN Str(UnknownText)
    ELSE LET s == NormalText(c)
             s_age == ReplacePadded(ReplaceChars(s, {"~", Ko.EnDash, Ko.EmDash}, "-"),
                                    Ko.Se, <<>>)
             age_range == IF ExtractRange(s_age) = Null THEN Null
                          ELSE Str(ReplacePadded(ExtractRange(s_age).s, "-", <<"-">>))
             age_plus == ExtractPlus(s_age)
         IN  IF Contains(s, <<Ko.Yeon, Ko.Ryeong, Ko.Mo, Ko.Reum>>) THEN Str(UnknownText)
             ELSE IF age_range # Null THEN age_range
             ELSE IF age_plus # Null THEN Str(age_plus.s \o <<"+">>)
             ELSE Str(UnknownText)

\* the gender expression with the male test before the sentinel
GenderMaleFirst(c) ==
    IF c.k = "null" THEN Str(UnknownText)
    ELSE LET s == NormalText(c)
         IN  IF Contains(s, <<Ko.Nam, Ko.Ja>>) \/ Contains(s, <<Ko.Nam, Ko.Seong>>)
             THEN Str(MaleText)
             ELSE IF Contains(s, <<Ko.Seong, Ko.Byeol, Ko.Mo, Ko.Reum>>)
             THEN Str(UnknownText)
             ELSE IF Contains(s, <<Ko.Yeo, Ko.Ja>>) \/ Contains(s, <<Ko.Yeo, Ko.Seong>>)
             THEN Str(FemaleText)
             ELSE Str(UnknownText)

\* the gender expression on one cell
GenderOf(c) ==
    IF c.k = "null" THEN Str(UnknownText)
    ELSE LET s == NormalText(c)
         IN  IF Contains(s, <<Ko.Seong, Ko.Byeol, Ko.Mo, Ko.Reum>>) THEN Str(UnknownText)
             ELSE IF Contains(s, <<Ko.Nam, Ko.Ja>>) \/ Contains(s, <<Ko.Nam, Ko.Seong>>)
             THEN Str(MaleText)
             ELSE IF Contains(s, <<Ko.Yeo, Ko.Ja>>) \/ Contains(s, <<Ko.Yeo, Ko.Seong>>)
             THEN Str(FemaleText)
             ELSE Str(UnknownText)

\* df.drop(name)
Drop(df, name) == SelectSeq(df, LAMBDA c : c.name # name)

\* data_clean_lib.clean_naver_gfa_age_gender
clean_naver_gfa_age_gender(df) ==
    IF AgeGenderCol \notin ColSet(df) THEN Raise("ColumnNotFoundError")
    ELSE LET c == GetCol(df, AgeGenderCol)
             s == [r \in 1..Len(c.vals) |-> CastCell(c.vals[r], "String")]
             age == Col(AgeCol, "String", [r \in 1..Len(s) |-> AgeOf(s[r])])
             gender == Col(GenderCol, "String", [r \in 1..Len(s) |-> GenderOf(s[r])])
         IN  Ok(Drop(WithColumn(WithColumn(df, age), gender), AgeGenderCol))

\* the age parts, gender parts and separators of the values considered
AgeParts ==
    { <<"2", "0", "-", "2", "4">>,
      <<"2", "0", "~", "2", "4">>,
      <<"2", "0", " ", "~", " ", "2", "4">>,
      <<"2", "0", Ko.Se, "~", "2", "4", Ko.Se>>,
      <<"2", "0", Ko.Se, " ", "~", " ", "2", "4", Ko.Se>>,
      <<"2", "0", Ko.EnDash, "2", "4", Ko.Se>>,
      <<"2", "0", Ko.EmDash, "2", "4">>,
      <<"6", "0", Ko.Se, " ", Ko.I, Ko.Sang>>,
      <<"6", "0", Ko.Se, Ko.I, Ko.Sang>>,
      <<"6", "0", " ", Ko.I, Ko.Sang>>,
      <<"6", "5", Ko.I, Ko.Sang>>,
      <<Ko.Yeon, Ko.Ryeong, Ko.Mo, Ko.Reum>>,
      <<"1", "3", "-", "1", "8">>,
      <<"7", "~", "9">>,
      <<"1", "0", "0", "-", "1", "2", "0">>,
      <<"2", "0", "-", "-", "2", "4">>,
      <<>>,
      <<"2", "0">>,
      <<Ko.I, Ko.Sang>>,
      <<"2", "0", Ko.Dae>>,
      <<"5", " ", Ko.Se, " ", "-", " ", "9", " ", Ko.Se>>,
      <<"6", "0", " ", Ko.I, Ko.Sang, " ", "2", "0", "-", "2", "4">>,
      <<"9", Ko.I, Ko.Sang, " ", "7", "-", "8", Ko.Se>> }

GenderParts ==
    { <<Ko.Nam, Ko.Ja>>,
      <<Ko.Nam, Ko.Seong>>,
      <<Ko.Yeo, Ko.Ja>>,
      <<Ko.Yeo, Ko.Seong>>,
      <<Ko.Seong, Ko.Byeol, Ko.Mo, Ko.Reum>>,
      <<>>,
      <<"m", "a", "l", "e">>,
      <<Ko.Nam>>,
      <<Ko.Nam, Ko.Ja, " ", Ko.Yeo, Ko.Ja>>,
      <<Ko.Seong, Ko.Byeol, Ko.Mo, Ko.Reum, " ", Ko.Nam, Ko.Ja>>,
      <<Ko.Yeo, Ko.Seong, " ", Ko.Seong, Ko.Byeol, Ko.Mo, Ko.Reum>> }

Separators ==
    { <<" ">>,
      <<>>,
      <<" ", " ">>,
      <<"\t">> }

AgeGenderTexts ==
    {a \o p \o g : a \in AgeParts, p \in Separators, g \in GenderParts}
      \cup {g \o p \o a : a \in AgeParts, p \in Separators, g \in GenderParts}
      \cup TextsUpTo({"2", "-", " ", Ko.Se}, 3)

\* a Naver GFA export of one row per value, the combined column in second
\* place
AgeGenderTables ==
    {<< Col("Cost", "Int64", <<Int64(3)>>),
        Col(AgeGenderCol, "String", <<Str(t)>>),
        Col(DateCol, "String", <<Str(<<"2", "0", "2", "6", ".", "0", "2", ".", "0", "9", ".">>)>>) >> :
          t \in AgeGenderTexts}
      \cup
    {<< Col(AgeCol, "String", <<Str(<<"o", "l", "d">>), Null, Str(<<"o", "l", "d">>)>>),
        Col(AgeGenderCol, "String",
            <<Str(<<"2", "0", "~", "2", "4", Ko.Se, " ", Ko.Nam, Ko.Ja>>), Null,
              Str(<<"6", "0", Ko.Se, " ", Ko.I, Ko.Sang, " ", Ko.Yeo, Ko.Seong>>)>>) >>,
     << Col(AgeGenderCol, "Int64", <<Int64(20)>>) >>,
     << Col("Cost", "Int64", <<Int64(3)>>) >>}

(***************************************************************************)
(* A call of a Naver GFA cleaner on one table.                             *)
(***************************************************************************)
NaverInit ==
    /\ NoPipeline
    /\ libcall \in
          {[fn |-> "clean_naver_gfa_date", df |-> t, phase |-> "call",
            err |-> "none", out |-> <<>>] : t \in DateTables}
            \cup
          {[fn |-> "clean_naver_gfa_age_gender", df |-> t, phase |-> "call",
            err |-> "none", out |-> <<>>] : t \in AgeGenderTables}

\* the return of a cleaner: r is [err, df]
NaverReturns(r) ==
    /\ libcall' = [libcall EXCEPT !.phase = "done", !.err = r.err, !.out = r.df]
    /\ UNCHANGED pipeline

CleanNaverGfaDate ==
    /\ libcall.phase = "call"
    /\ libcall.fn = "clean_naver_gfa_date"
    /\ NaverReturns(clean_naver_gfa_date(libcall.df))

CleanNaverGfaAgeGender ==
    /\ libcall.phase = "call"
    /\ libcall.fn = "clean_naver_gfa_age_gender"
    /\ NaverReturns(clean_naver_gfa_age_gender(libcall.df))

NaverNext == CleanNaverGfaDate \/ CleanNaverGfaAgeGender

SpecNaver == NaverInit /\ [][NaverNext]_vars


(***************************************************************************)
(* Claims about the Naver GFA cleaners.                                    *)
(***************************************************************************)
NaverDone(fn) == libcall # None /\ libcall.fn = fn /\ libcall.phase = "done"

\* the cell of column name in row r of df, as the text the cleaners see
TextCell(df, name, r) == CastCell(GetCol(df, name).vals[r], "String")

\* the columns of df other than those named are in out as they were
OthersKept(df, out, names) ==
    \A i \in 1..Len(df) :
        df[i].name \notin names =>
            df[i].name \in ColSet(out) /\ GetCol(out, df[i].name) = df[i]

\* t between its first and last characters that are not whitespace
Trimmed(t) ==
    LET ink == {i \in 1..Len(t) : t[i] \notin Whitespace}
    IN  IF ink = {} THEN <<>>
        ELSE SubSeq(t, CHOOSE i \in ink : \A j \in ink : i <= j,
                       CHOOSE i \in ink : \A j \in ink : i >= j)

WithoutTrailingDot(t) ==
    IF t # <<>> /\ t[Len(t)] = "." THEN SubSeq(t, 1, Len(t) - 1) ELSE t

Hyphenated(t) == [i \in 1..Len(t) |-> IF t[i] = "." THEN "-" ELSE t[i]]

DottedExample == <<"2", "0", "2", "6", ".", "0", "2", ".", "0", "9", ".">>
IsoExample == <<"2", "0", "2", "6", "-", "0", "2", "-", "0", "9">>

\* C24: when clean_naver_gfa_date has run on a table that has the period
\* column, the table has the same columns in the same order and the same
\* rows, every other column is unchanged, and every value of the period
\* column is the old text with the surrounding whitespace removed, then one
\* trailing dot removed, then every dot left turned into a hyphen (a null
\* stays null); "2026.02.09." becomes "2026-02-09".
C24_DateRewritten ==
    (NaverDone("clean_naver_gfa_date") /\ DateCol \in ColSet(libcall.df)) =>
        /\ libcall.err = "none"
        /\ Columns(libcall.out) = Columns(libcall.df)
        /\ Height(libcall.out) = Height(libcall.df)
        /\ OthersKept(libcall.df, libcall.out, {DateCol})
        /\ \A r \in 1..Height(libcall.df) :
              LET old == TextCell(libcall.df, DateCol, r)
                  new == GetCol(libcall.out, DateCol).vals[r]
              IN  /\ old = Null => new = Null
                  /\ old # Null =>
                        new = Str(Hyphenated(WithoutTrailingDot(Trimmed(old.s))))
                  /\ old = Str(DottedExample) => new = Str(IsoExample)

\* a dotted date with whitespace around it, in the second column of three,
\* has been rewritten to the ISO form
C24_Witness ==
    /\ NaverDone("clean_naver_gfa_date")
    /\ Columns(libcall.out) = <<"Cost", DateCol, AgeGenderCol>>
    /\ libcall.df[2].vals = <<Str(<<" ">> \o DottedExample \o <<" ">>)>>
    /\ libcall.out[2].vals = <<Str(IsoExample)>>

AgeSentinel == <<Ko.Yeon, Ko.Ryeong, Ko.Mo, Ko.Reum>>
GenderSentinel == <<Ko.Seong, Ko.Byeol, Ko.Mo, Ko.Reum>>
MaleWords == {<<Ko.Nam, Ko.Ja>>, <<Ko.Nam, Ko.Seong>>}
FemaleWords == {<<Ko.Yeo, Ko.Ja>>, <<Ko.Yeo, Ko.Seong>>}

Has(t, words) == \E w \in words : Contains(t, w)

\* one or two digits
IsNumber(t) == Len(t) \in 1..2 /\ \A i \in 1..Len(t) : t[i] \in Digits

\* a-b, one hyphen between two numbers
IsRangeText(t) ==
    \E i \in 1..Len(t) :
        /\ t[i] = "-"
        /\ IsNumber(SubSeq(t, 1, i - 1))
        /\ IsNumber(SubSeq(t, i + 1, Len(t)))

\* N+
IsPlusText(t) ==
    Len(t) >= 2 /\ t[Len(t)] = "+" /\ IsNumber(SubSeq(t, 1, Len(t) - 1))

\* t without its whitespace and its age suffix characters, every tilde and
\* dash a hyphen
Squeezed(t) ==
    LET kept == SelectSeq(t, LAMBDA ch : ch \notin Whitespace \cup {Ko.Se})
    IN  [i \in 1..Len(kept) |->
            IF kept[i] \in {"~", Ko.EnDash, Ko.EmDash} THEN "-" ELSE kept[i]]

\* t has two numbers joined by a hyphen
HasRange(t) ==
    LET q == Squeezed(t)
    IN  \E i \in 2..(Len(q) - 1) :
            q[i] = "-" /\ q[i - 1] \in Digits /\ q[i + 1] \in Digits

\* t has a number followed by the open-ended word
HasPlus(t) ==
    LET q == Squeezed(t)
    IN  \E i \in 2..(Len(q) - 1) :
            q[i - 1] \in Digits /\ q[i] = Ko.I /\ q[i + 1] = Ko.Sang

\* C23: when clean_naver_gfa_age_gender has run on a table that has the
\* combined column, it has not failed, the row count is the same, the
\* combined column is gone, an age and a gender column are there and the
\* other columns are unchanged; in every row the gender is male, female or
\* unknown (unknown when the text has the unknown-gender sentinel, whatever
\* else it has, and when it has no gender word), and the age is "unknown"
\* when the text has the unknown-age sentinel, else a range a-b when the
\* text has one, else N+ when the text has the open-ended form, else
\* "unknown".
C23_AgeGenderSplit ==
    (NaverDone("clean_naver_gfa_age_gender") /\ AgeGenderCol \in ColSet(libcall.df)) =>
        /\ libcall.err = "none"
        /\ Height(libcall.out) = Height(libcall.df)
        /\ ColSet(libcall.out)
             = (ColSet(libcall.df) \ {AgeGenderCol}) \cup {AgeCol, GenderCol}
        /\ OthersKept(libcall.df, libcall.out, {AgeGenderCol, AgeCol, GenderCol})
        /\ \A r \in 1..Height(libcall.df) :
              LET old == TextCell(libcall.df, AgeGenderCol, r)
                  t == old.s
                  age == GetCol(libcall.out, AgeCol).vals[r]
                  gender == GetCol(libcall.out, GenderCol).vals[r]
              IN  /\ gender \in {Str(MaleText), Str(FemaleText), Str(UnknownText)}
                  /\ age.k = "str"
                  /\ age.s = UnknownText \/ IsRangeText(age.s) \/ IsPlusText(age.s)
                  /\ old = Null => age.s = UnknownText /\ gender.s = UnknownText
                  /\ Contains(t, GenderSentinel) => gender.s = UnknownText
                  /\ ~Has(t, MaleWords \cup FemaleWords) => gender.s = UnknownText
                  /\ (Has(t, MaleWords) /\ ~Contains(t, GenderSentinel))
                        => gender.s = MaleText
                  /\ (Has(t, FemaleWords) /\ ~Has(t, MaleWords)
                        /\ ~Contains(t, GenderSentinel)) => gender.s = FemaleText
                  /\ Contains(t, AgeSentinel) => age.s = UnknownText
                  /\ (~Contains(t, AgeSentinel) /\ HasRange(t)) => IsRangeText(age.s)
                  /\ (~Contains(t, AgeSentinel) /\ ~HasRange(t) /\ HasPlus(t))
                        => IsPlusText(age.s)
                  /\ (~HasRange(t) /\ ~HasPlus(t)) => age.s = UnknownText

\* a table of three rows, a range with a male word, a null and an open-ended
\* age with a female word, has been split; its old age column is replaced
C23_Witness ==
    /\ NaverDone("clean_naver_gfa_age_gender")
    /\ Columns(libcall.df) = <<AgeCol, AgeGenderCol>>
    /\ libcall.out =
          << Col(AgeCol, "String",
                 <<Str(<<"2", "0", "-", "2", "4">>), Str(UnknownText),
                   Str(<<"6", "0", "+">>)>>),
             Col(GenderCol, "String",
                 <<Str(MaleText), Str(UnknownText), Str(FemaleText)>>) >>

=============================================================================
